---- MODULE Spec2Model ----
(***************************************************************************)
(* Keyword cache, keyword extraction, bullet distribution and the turbo    *)
(* pipeline of turbo-pipeline.js, modelled on character strings.           *)
(*                                                                         *)
(* Texts are TLA+ strings; "\n" is the line feed.  The non-ASCII bullet    *)
(* glyphs of the source are written with ASCII stand-ins that are, like    *)
(* the originals, neither word characters nor white space:                 *)
(*     "@" is U+2022 (bullet), "=" is U+25AA, ">" is U+25B8.               *)
(***************************************************************************)
EXTENDS Integers, Sequences, FiniteSets, TLC

VARIABLES
    keywordCache,   \* the Map of line 18, as the sequence of its entries in Map order
    now,            \* Date.now(), in milliseconds
    ext,            \* the last direct call of turboExtractKeywords: arguments, return value
    dist,           \* one call of distributeHighPriorityKeywords: arguments, draws, return value
    UniqueCVEngine, \* whether global.UniqueCVEngine.generateUniqueCVForJob is there
    runs,           \* the runs of executeTurboPipeline: position, arguments, locals, result
    extraction,     \* one call of ultraFastExtraction: arguments, locals, return value
    hasTriggeredTailor,  \* content.js line 100
    tailoringInProgress, \* content.js line 101
    page,           \* the page the content script runs on: upload fields, observer, timer, invocations
    request         \* one call of fetchWithRetry of content.js: position, retries, requests, result

cacheVars == <<keywordCache, now, ext>>

contentVars == <<hasTriggeredTailor, tailoringInProgress, page, request>>

pipelineVars == <<keywordCache, now, ext, dist, UniqueCVEngine, runs, extraction>>

vars == <<keywordCache, now, ext, dist, UniqueCVEngine, runs, extraction,
          hasTriggeredTailor, tailoringInProgress, page, request>>

(***************************************************************************)
(* Strings                                                                 *)
(***************************************************************************)
CharAt(s, i) == SubSeq(s, i, i)

Chars(s) == {CharAt(s, i) : i \in 1..Len(s)}

LowerLetters == "abcdefghijklmnopqrstuvwxyz"

UpperLetters == "ABCDEFGHIJKLMNOPQRSTUVWXYZ"

Digits == "0123456789"

\* JavaScript's \s, as far as TLA+ strings can write it
WhiteSpace == {" ", "\t", "\n", "\r", "\f"}

\* JavaScript's \w
WordChars == Chars(LowerLetters) \cup Chars(UpperLetters) \cup Chars(Digits) \cup {"_"}

LowerMap ==
    [c \in Chars(UpperLetters) |->
        CharAt(LowerLetters, CHOOSE k \in 1..26 : CharAt(UpperLetters, k) = c)]

ToLowerChar(c) == IF c \in DOMAIN LowerMap THEN LowerMap[c] ELSE c

RECURSIVE MapChars(_, _, _, _)
\* the characters lo..hi of s, each character c replaced by Op(c)
MapChars(Op(_), s, lo, hi) ==
    IF lo > hi THEN ""
    ELSE IF lo = hi THEN Op(CharAt(s, lo))
    ELSE LET mid == (lo + hi) \div 2
         IN  MapChars(Op, s, lo, mid) \o MapChars(Op, s, mid + 1, hi)

\* String.prototype.toLowerCase
ToLowerCase(s) == MapChars(ToLowerChar, s, 1, Len(s))

\* String.prototype.substring(from, to), 0-based and clamped as in JavaScript
Substring(s, from, to) ==
    LET lo == IF from > Len(s) THEN Len(s) ELSE from
        hi == IF to > Len(s) THEN Len(s) ELSE to
    IN  SubSeq(s, lo + 1, hi)

\* String.prototype.includes
Includes(s, sub) ==
    \E i \in 1..(Len(s) - Len(sub) + 1) : SubSeq(s, i, i + Len(sub) - 1) = sub

Min(a, b) == IF a < b THEN a ELSE b

Max(a, b) == IF a > b THEN a ELSE b

\* Array.prototype.slice(from, to) for 0 <= from and 0 <= to
Slice(seq, from, to) ==
    SubSeq(seq, Min(from, Len(seq)) + 1, Min(to, Len(seq)))

SeqToSet(seq) == {seq[i] : i \in 1..Len(seq)}

(***************************************************************************)
(* Program constants                                                       *)
(***************************************************************************)
MAX_CACHE_SIZE == 100

CACHE_EXPIRY_MS == 30 * 60 * 1000

\* TIMING_TARGETS.TOTAL
TIMING_TARGET_TOTAL == 175

\* the length below which a job description is insufficient (line 53)
MIN_DESCRIPTION_LENGTH == 50

\* the default of options.maxKeywords (lines 51 and 465)
DEFAULT_MAX_KEYWORDS == 35

stopWords ==
    {"a","an","the","and","or","but","in","on","at","to","for","of","with","by","from",
     "as","is","was","are","were","been","be","have","has","had","do","does","did",
     "will","would","could","should","may","might","must","can","need","this","that",
     "you","your","we","our","they","their","work","working","job","position","role",
     "team","company","opportunity","looking","seeking","required","requirements",
     "preferred","ability","able","experience","years","year","including","new",
     "strong","excellent","highly","etc","also","via","across","ensure","join"}

softSkillsToExclude ==
    {"collaboration","communication","teamwork","leadership","initiative","proactive",
     "ownership","responsibility","commitment","passion","dedication","motivation",
     "self-starter","detail-oriented","problem-solving","critical thinking",
     "time management","adaptability","flexibility","creativity","innovation",
     "interpersonal","organizational","multitasking","prioritization","reliability",
     "accountability","integrity","professionalism","work ethic","positive attitude",
     "enthusiasm","driven","dynamic","results-oriented","goal-oriented","mission",
     "continuous learning","debugging","testing","documentation","system integration",
     "goodjob","sidekiq","canvas","salesforce"}

technicalPatterns ==
    {"python","java","javascript","typescript","ruby","rails","react","node","nodejs",
     "aws","azure","gcp","google cloud","kubernetes","docker","terraform","ansible",
     "postgresql","postgres","mysql","mongodb","redis","elasticsearch","bigquery",
     "spark","airflow","kafka","dbt","snowflake","databricks","mlops","devops",
     "ci/cd","github","gitlab","jenkins","circleci","agile","scrum","jira","confluence",
     "pytorch","tensorflow","scikit-learn","pandas","numpy","sql","nosql","graphql",
     "rest","api","microservices","serverless","lambda","ecs","eks","s3","rds",
     "machine learning","data science","data engineering","deep learning","nlp","llm",
     "genai","ai","ml","computer vision","data pipelines","etl","data modeling",
     "tableau","power bi","looker","heroku","vercel","netlify","linux","unix","bash",
     "git","svn","html","css","sass","webpack","vite","nextjs","vue","angular",
     "swift","kotlin","flutter","react native","ios","android","mobile","frontend",
     "backend","fullstack","full-stack","sre","infrastructure","networking","security",
     "oauth","jwt","encryption","compliance","gdpr","hipaa","soc2","pci","prince2",
     "cbap","pmp","certified","certification",".net","c#","go","scala"}

multiWordPatterns ==
    <<"project management", "data science", "machine learning", "deep learning",
      "data engineering", "cloud platform", "google cloud platform", "agile/scrum",
      "a/b testing", "ci/cd", "real-time", "data pipelines", "ruby on rails",
      "node.js", "react.js", "vue.js", "next.js", "full stack", "full-stack",
      "natural language processing", "computer vision", "artificial intelligence",
      ".net core", "software development", "full-stack development">>

(***************************************************************************)
(* ultraFastExtraction (lines 76-169)                                      *)
(***************************************************************************)
\* the characters /[^a-z0-9\s\-\/\.#\+]/g leaves alone (line 120)
KeepChars ==
    Chars(LowerLetters) \cup Chars(Digits) \cup WhiteSpace \cup {"-", "/", ".", "#", "+"}

StripChar(c) == IF c \in KeepChars THEN c ELSE " "

\* where the pieces of s.split(/\s+/) that hold characters begin
PieceStarts(s) ==
    {i \in 1..Len(s) : /\ CharAt(s, i) \notin WhiteSpace
                       /\ (i = 1 \/ CharAt(s, i - 1) \in WhiteSpace)}

\* the last character of the piece that begins at i
PieceEnd(s, i) ==
    CHOOSE j \in i..Len(s) :
        /\ \A k \in i..j : CharAt(s, k) \notin WhiteSpace
        /\ (j = Len(s) \/ CharAt(s, j + 1) \in WhiteSpace)

\* the members of a set of numbers in increasing order
Ascending(S) ==
    [k \in 1..Cardinality(S) |-> CHOOSE i \in S : Cardinality({j \in S : j < i}) = k - 1]

\* String.prototype.split(/\s+/): a leading or trailing run of white space yields an
\* empty piece, and the empty string yields one empty piece
SplitWs(s) ==
    LET starts == Ascending(PieceStarts(s))
        pieces == [k \in 1..Len(starts) |-> SubSeq(s, starts[k], PieceEnd(s, starts[k]))]
        lead   == IF s = "" \/ CharAt(s, 1) \in WhiteSpace THEN <<"">> ELSE <<>>
        trail  == IF s # "" /\ CharAt(s, Len(s)) \in WhiteSpace THEN <<"">> ELSE <<>>
    IN  lead \o pieces \o trail

\* lines 119-122
Tokenize(text) ==
    SelectSeq(SplitWs(MapChars(StripChar, ToLowerCase(text), 1, Len(text))),
              LAMBDA w : Len(w) >= 2 /\ w \notin stopWords /\ w \notin softSkillsToExclude)

\* a Map from word to score, as the sequence of its entries in insertion order
FreqHas(freq, w) == \E i \in 1..Len(freq) : freq[i].word = w

\* freq.get(word) || 0
FreqGet(freq, w) ==
    IF FreqHas(freq, w)
    THEN freq[CHOOSE i \in 1..Len(freq) : freq[i].word = w].score
    ELSE 0

\* freq.set(word, score): an existing key keeps its place
FreqSet(freq, w, v) ==
    IF FreqHas(freq, w)
    THEN [i \in 1..Len(freq) |-> IF freq[i].word = w THEN [word |-> w, score |-> v] ELSE freq[i]]
    ELSE Append(freq, [word |-> w, score |-> v])

\* the boost of line 129
Boost(w) == IF w \in technicalPatterns THEN 5 ELSE 1

\* the body of the forEach of lines 126-132
CountWord(freq, w) ==
    IF w \in technicalPatterns \/ Len(w) > 4
    THEN FreqSet(freq, w, (FreqGet(freq, w) + 1) * Boost(w))
    ELSE freq

RECURSIVE CountWords(_, _, _)
\* the forEach of lines 126-132 from the i-th word on; the test on freq, never true,
\* has the Map of a round computed before the next round starts
CountWords(words, i, freq) ==
    IF i > Len(words) \/ Len(freq) < 0 THEN freq
    ELSE CountWords(words, i + 1, CountWord(freq, words[i]))

RECURSIVE AddPhrases(_, _, _)
\* lines 144-149
AddPhrases(textLower, i, freq) ==
    IF i > Len(multiWordPatterns) \/ Len(freq) < 0 THEN freq
    ELSE LET phrase == multiWordPatterns[i]
         IN  AddPhrases(textLower, i + 1,
                 IF Includes(textLower, phrase)
                 THEN FreqSet(freq, phrase, FreqGet(freq, phrase) + 10)
                 ELSE freq)

\* e put behind every entry whose score is at least its own
InsertByScore(sorted, e) ==
    LET k == Cardinality({i \in 1..Len(sorted) : sorted[i].score >= e.score})
    IN  SubSeq(sorted, 1, k) \o <<e>> \o SubSeq(sorted, k + 1, Len(sorted))

RECURSIVE SortByScore(_, _, _)
\* Array.prototype.sort((a, b) => b[1] - a[1]), which is stable
SortByScore(entries, i, sorted) ==
    IF i > Len(entries) \/ Len(sorted) < 0 THEN sorted
    ELSE SortByScore(entries, i + 1, InsertByScore(sorted, entries[i]))

\* the percentage rounded down instead of up
CeilPercent_Floor(n, pct) == (n * pct) \div 100

\* Math.ceil(n * 0.45) and Math.ceil(n * 0.35): the double products round as the exact ones
CeilPercent(n, pct) == (n * pct + 99) \div 100

\* lines 124-149
FreqTable(text) ==
    AddPhrases(ToLowerCase(text), 1, CountWords(Tokenize(text), 1, <<>>))

\* lines 152-156
RankKeywords(freq, maxKeywords) ==
    LET kept   == SelectSeq(freq, LAMBDA e : e.word \notin softSkillsToExclude)
        ranked == SortByScore(kept, 1, <<>>)
    IN  Slice([i \in 1..Len(ranked) |-> ranked[i].word], 0, maxKeywords)

\* SplitTiers with the low tier taken from the end of the high one
SplitTiers_LowAfterHigh(sorted) ==
    LET highCount == Min(15, CeilPercent(Len(sorted), 45))
        medCount  == Min(10, CeilPercent(Len(sorted), 35))
    IN  [all            |-> sorted,
         highPriority   |-> Slice(sorted, 0, highCount),
         mediumPriority |-> Slice(sorted, highCount, highCount + medCount),
         lowPriority    |-> Slice(sorted, highCount, Len(sorted)),
         workExperience |-> Slice(sorted, 0, 15),
         total          |-> Len(sorted)]

\* lines 158-168
SplitTiers(sorted) ==
    LET highCount == Min(15, CeilPercent(Len(sorted), 45))
        medCount  == Min(10, CeilPercent(Len(sorted), 35))
    IN  [all            |-> sorted,
         highPriority   |-> Slice(sorted, 0, highCount),
         mediumPriority |-> Slice(sorted, highCount, highCount + medCount),
         lowPriority    |-> Slice(sorted, highCount + medCount, Len(sorted)),
         workExperience |-> Slice(sorted, 0, 15),
         total          |-> Len(sorted)]

ultraFastExtraction(text, maxKeywords) ==
    SplitTiers(RankKeywords(FreqTable(text), maxKeywords))

(***************************************************************************)
(* Job descriptions                                                        *)
(***************************************************************************)
JD_PYTHON == "We need a Python and Kubernetes engineer with AWS experience"

\* 56 characters, none of them in a keyword
JD_STOPWORDS == "we are looking for you to join our team and work with us"

\* 50 characters
JD_50 == "Senior Python engineer wanted for our AWS platform"

\* 49 characters
JD_49 == "Junior Python engineer wanted for our AWS systems"

JD_FILLER == "Terraform and Ansible automation for a Linux infrastructure team"

\* 199 characters
JD_KEY_HEAD ==
    "Backend engineer wanted. You will build data services in Python on AWS, "
        \o "run them on Kubernetes, write Terraform for the platform and keep "
        \o "PostgreSQL fast, with Docker, Git and Linux as the daily tool"

\* two texts of 210 characters with the same first 200
JD_LONG_A == JD_KEY_HEAD \o "s" \o " Redis too"

JD_LONG_B == JD_KEY_HEAD \o "s" \o " Kafka too"

\* the same first 200 characters, another length
JD_LONG_C == JD_KEY_HEAD \o "s" \o " MySQL and Redis"

\* the length of JD_LONG_A, another 200th character
JD_LONG_D == JD_KEY_HEAD \o "z" \o " Redis too"

KeyTexts == {JD_LONG_A, JD_LONG_B, JD_LONG_C, JD_LONG_D}

JobTexts == {JD_49, JD_50, JD_PYTHON, JD_FILLER}

MaxKeywordsChoices == {2, DEFAULT_MAX_KEYWORDS}

\* ultraFastExtraction on the job descriptions of the model, computed once
ExtractionTable ==
    {[text |-> t, maxKeywords |-> m, result |-> ultraFastExtraction(t, m)] :
        t \in JobTexts \cup {JD_STOPWORDS} \cup KeyTexts, m \in MaxKeywordsChoices}

\* the call of line 64
Extraction(text, maxKeywords) ==
    IF \E e \in ExtractionTable : e.text = text /\ e.maxKeywords = maxKeywords
    THEN (CHOOSE e \in ExtractionTable : e.text = text /\ e.maxKeywords = maxKeywords).result
    ELSE ultraFastExtraction(text, maxKeywords)

(***************************************************************************)
(* The keyword cache (lines 17-46)                                         *)
(***************************************************************************)
\* getCacheKey without the length of the text
getCacheKey_PrefixOnly(jobUrl, text) ==
    IF jobUrl # "" THEN jobUrl
    ELSE Substring(text, 0, 200)

\* line 22-27
getCacheKey(jobUrl, text) ==
    IF jobUrl # "" THEN jobUrl
    ELSE Substring(text, 0, 200) \o "_" \o ToString(Len(text))

\* the position of key in the Map, 0 when it has none
CacheIndex(cache, key) ==
    IF \E i \in 1..Len(cache) : cache[i].key = key
    THEN CHOOSE i \in 1..Len(cache) : cache[i].key = key
    ELSE 0

CacheKeys(cache) == {cache[i].key : i \in 1..Len(cache)}

\* keywordCache.keys()
KeysInOrder(cache) == [i \in 1..Len(cache) |-> cache[i].key]

\* the null of line 36
Null == [null |-> TRUE]

\* getCachedKeywords with the age compared by <= instead of <
getCachedKeywords_InclusiveExpiry(cache, clock, jobUrl, text) ==
    LET key == getCacheKey(jobUrl, text)
        i   == CacheIndex(cache, key)
    IN  IF i # 0 /\ (clock - cache[i].timestamp) <= CACHE_EXPIRY_MS
        THEN cache[i].keywords
        ELSE Null

\* lines 29-37
getCachedKeywords(cache, clock, jobUrl, text) ==
    LET key == getCacheKey(jobUrl, text)
        i   == CacheIndex(cache, key)
    IN  IF i # 0 /\ (clock - cache[i].timestamp) < CACHE_EXPIRY_MS
        THEN cache[i].keywords
        ELSE Null

\* Map.prototype.set that leaves the value of an existing key as it was
MapSet_KeepOld(cache, key, value) ==
    IF CacheIndex(cache, key) # 0 THEN cache ELSE Append(cache, value)

\* Map.prototype.set: an existing key keeps its place, a new one goes last
MapSet(cache, key, value) ==
    IF CacheIndex(cache, key) # 0
    THEN [i \in 1..Len(cache) |-> IF cache[i].key = key THEN value ELSE cache[i]]
    ELSE Append(cache, value)

\* setCachedKeywords with the size compared by > instead of >=
setCachedKeywords_LateEviction(cache, clock, jobUrl, text, keywords) ==
    LET key     == getCacheKey(jobUrl, text)
        evicted == IF Len(cache) > MAX_CACHE_SIZE /\ cache # <<>>
                   THEN Tail(cache)
                   ELSE cache
    IN  MapSet(evicted, key, [key |-> key, keywords |-> keywords, timestamp |-> clock])

\* setCachedKeywords that deletes the last key of the Map instead of the first
setCachedKeywords_EvictNewest(cache, clock, jobUrl, text, keywords) ==
    LET key     == getCacheKey(jobUrl, text)
        evicted == IF Len(cache) >= MAX_CACHE_SIZE /\ cache # <<>>
                   THEN SubSeq(cache, 1, Len(cache) - 1)
                   ELSE cache
    IN  MapSet(evicted, key, [key |-> key, keywords |-> keywords, timestamp |-> clock])

\* setCachedKeywords that stores nothing
setCachedKeywords_NotStored(cache, clock, jobUrl, text, keywords) == cache

\* lines 39-46
setCachedKeywords(cache, clock, jobUrl, text, keywords) ==
    LET key     == getCacheKey(jobUrl, text)
        evicted == IF Len(cache) >= MAX_CACHE_SIZE /\ cache # <<>>
                   THEN Tail(cache)
                   ELSE cache
    IN  MapSet(evicted, key, [key |-> key, keywords |-> keywords, timestamp |-> clock])

(***************************************************************************)
(* turboExtractKeywords (lines 49-73)                                      *)
(***************************************************************************)
\* the jobDescription argument: a string, or undefined
Undefined == [defined |-> FALSE, text |-> ""]

Str(s) == [defined |-> TRUE, text |-> s]

\* { ...keywords, fromCache }; fromCache is "undefined" where the object has no such field
WithFromCache(k, flag) ==
    [all            |-> k.all,
     highPriority   |-> k.highPriority,
     mediumPriority |-> k.mediumPriority,
     lowPriority    |-> k.lowPriority,
     workExperience |-> k.workExperience,
     total          |-> k.total,
     fromCache      |-> flag]

\* the keyword fields of a returned object
KeywordsOf(r) ==
    [all            |-> r.all,
     highPriority   |-> r.highPriority,
     mediumPriority |-> r.mediumPriority,
     lowPriority    |-> r.lowPriority,
     workExperience |-> r.workExperience,
     total          |-> r.total]

\* line 54
EmptyKeywords ==
    [all |-> <<>>, highPriority |-> <<>>, mediumPriority |-> <<>>, lowPriority |-> <<>>,
     workExperience |-> <<>>, total |-> 0]

\* turboExtractKeywords with the cache consulted before the length of the text
turboExtractKeywords_CacheFirst(cache, clock, jobDescription, jobUrl, maxKeywords) ==
    LET cached == getCachedKeywords(cache, clock, jobUrl, jobDescription.text)
    IN  IF cached # Null
        THEN [ret |-> WithFromCache(cached, "true"), cache |-> cache, computed |-> FALSE]
        ELSE IF ~jobDescription.defined \/ jobDescription.text = ""
                \/ Len(jobDescription.text) < MIN_DESCRIPTION_LENGTH
        THEN [ret |-> WithFromCache(EmptyKeywords, "undefined"), cache |-> cache,
              computed |-> FALSE]
        ELSE LET result == Extraction(jobDescription.text, maxKeywords)
             IN  [ret      |-> WithFromCache(result, "false"),
                  cache    |-> setCachedKeywords(cache, clock, jobUrl,
                                                 jobDescription.text, result),
                  computed |-> TRUE]

\* the returned object, the Map afterwards, and whether ultraFastExtraction ran
turboExtractKeywords(cache, clock, jobDescription, jobUrl, maxKeywords) ==
    IF ~jobDescription.defined \/ jobDescription.text = ""
       \/ Len(jobDescription.text) < MIN_DESCRIPTION_LENGTH
    THEN [ret |-> WithFromCache(EmptyKeywords, "undefined"), cache |-> cache, computed |-> FALSE]
    ELSE LET cached == getCachedKeywords(cache, clock, jobUrl, jobDescription.text)
         IN  IF cached # Null
             THEN [ret |-> WithFromCache(cached, "true"), cache |-> cache, computed |-> FALSE]
             ELSE LET result == Extraction(jobDescription.text, maxKeywords)
                  IN  [ret      |-> WithFromCache(result, "false"),
                       cache    |-> setCachedKeywords(cache, clock, jobUrl,
                                                      jobDescription.text, result),
                       computed |-> TRUE]

(***************************************************************************)
(* Inputs and bounds                                                       *)
(***************************************************************************)
\* calls of turboExtractKeywords in one behaviour
MaxCalls == 2

URL_A == "https://jobs.example/a"

FillerUrl(i) == "https://jobs.example/filler/" \o ToString(i)

JobDescriptions == {Undefined} \cup {Str(t) : t \in JobTexts \ {JD_FILLER}}

JobUrls == {"", URL_A, FillerUrl(1)}

\* the instants at which calls are made: an entry of time 0 is then 30 minutes less
\* 1 ms old, exactly 30 minutes old, and older
Instants == {0, CACHE_EXPIRY_MS - 1, CACHE_EXPIRY_MS, 2 * CACHE_EXPIRY_MS}

\* the Map after turboExtractKeywords ran for the first n filler URLs in a row at time 0
Prefilled(n) ==
    LET keywords == Extraction(JD_FILLER, DEFAULT_MAX_KEYWORDS)
    IN  [i \in 1..n |-> [key |-> FillerUrl(i), keywords |-> keywords, timestamp |-> 0]]

\* the cache starts empty, one entry short of full, or full
PrefillSizes == {0, MAX_CACHE_SIZE - 1, MAX_CACHE_SIZE}

(***************************************************************************)
(* The cache and the extractor as a state machine                          *)
(***************************************************************************)
\* no call of distributeHighPriorityKeywords
NoDist == [phase |-> "none"]

\* no run of executeTurboPipeline
NoRuns == <<>>

\* no direct call of ultraFastExtraction
NoExtraction == [phase |-> "none"]

\* no call of fetchWithRetry of content.js
NoRequest == [pc |-> "idle", retries |-> 0, requests |-> 0, delay |-> 0, log |-> <<>>]

\* a page on which the content script has not started
NoPage ==
    [started |-> FALSE, hasUploadFields |-> FALSE, observer |-> "none", records |-> FALSE,
     timer |-> "none", invocations |-> <<>>, tailorRequests |-> 0, alreadyTailored |-> FALSE]

\* the content script takes no part
NoContentScript ==
    /\ hasTriggeredTailor = FALSE
    /\ tailoringInProgress = FALSE
    /\ page = NoPage
    /\ request = NoRequest

NoCall ==
    [n |-> 0, jobDescription |-> Undefined, jobUrl |-> "", maxKeywords |-> DEFAULT_MAX_KEYWORDS,
     ret |-> WithFromCache(EmptyKeywords, "undefined"), computed |-> FALSE]

Init ==
    /\ keywordCache \in {Prefilled(n) : n \in PrefillSizes}
    /\ now = 0
    /\ ext = NoCall
    /\ dist = NoDist
    /\ UniqueCVEngine = FALSE
    /\ runs = NoRuns
    /\ extraction = NoExtraction
    /\ NoContentScript

\* one call of turboExtractKeywords(jobDescription, { jobUrl, maxKeywords })
Extract(jobDescription, jobUrl, maxKeywords) ==
    /\ ext.n < MaxCalls
    /\ LET r == turboExtractKeywords(keywordCache, now, jobDescription, jobUrl, maxKeywords)
       IN  /\ keywordCache' = r.cache
           /\ ext' = [n |-> ext.n + 1, jobDescription |-> jobDescription, jobUrl |-> jobUrl,
                      maxKeywords |-> maxKeywords, ret |-> r.ret, computed |-> r.computed]
    /\ UNCHANGED <<now, dist, UniqueCVEngine, runs, extraction, contentVars>>

\* TurboPipeline.clearCache (line 530)
ClearCache ==
    /\ keywordCache' = <<>>
    /\ UNCHANGED <<now, ext, dist, UniqueCVEngine, runs, extraction, contentVars>>

\* time passes between two calls
Tick(t) ==
    /\ t > now
    /\ now' = t
    /\ UNCHANGED <<keywordCache, ext, dist, UniqueCVEngine, runs, extraction, contentVars>>

Next ==
    \/ \E jd \in JobDescriptions, url \in JobUrls, mk \in MaxKeywordsChoices :
          Extract(jd, url, mk)
    \/ ClearCache
    \/ \E t \in Instants : Tick(t)

Spec == Init /\ [][Next]_vars

(***************************************************************************)
(* Properties of the cache and the extractor                               *)
(***************************************************************************)
\* a step of Extract, and what it was called with
IsCall == ext'.n = ext.n + 1

CallKey(call) == getCacheKey(call.jobUrl, call.jobDescription.text)

Insufficient(jobDescription) ==
    ~jobDescription.defined \/ Len(jobDescription.text) < MIN_DESCRIPTION_LENGTH

\* the entry of key in a cache that holds one
EntryOf(cache, key) == cache[CacheIndex(cache, key)]

\* an entry of key that has not reached the age of CACHE_EXPIRY_MS at time clock
HasLiveEntry(cache, clock, key) ==
    \E i \in 1..Len(cache) :
        cache[i].key = key /\ clock - cache[i].timestamp < CACHE_EXPIRY_MS

\* C2: after any sequence of extraction calls and clearCache calls the keyword cache
\* holds at most MAX_CACHE_SIZE (100) entries.
C2_CacheAtMostMax == Len(keywordCache) <= MAX_CACHE_SIZE

\* a store into a full cache has happened: the first filler entry is gone, the cache is full
C2_Witness ==
    /\ Len(keywordCache) = MAX_CACHE_SIZE
    /\ ext.computed
    /\ FillerUrl(1) \notin CacheKeys(keywordCache)
    /\ CallKey(ext) \in CacheKeys(keywordCache)

\* C3: a store under a new key into a cache of MAX_CACHE_SIZE entries evicts exactly one
\* entry, the first of the Map, and puts the new key last; the Map lists its keys in the
\* order of their insertion (in every step the keys that stay, the key being stored aside,
\* are the old keys from some position on, in their old order, and a new key goes last),
\* and a cache hit changes nothing: the evicted entry is the one inserted earliest,
\* however often it was hit.
C3_Step ==
    LET before == keywordCache
        after  == keywordCache'
        key    == CallKey(ext')
        stores == IsCall /\ ext'.computed
        others(cache) == SelectSeq(KeysInOrder(cache), LAMBDA k : ~(stores /\ k = key))
        oldKeys == others(before)
        newKeys == others(after)
        dropped == Len(oldKeys) - Len(newKeys)
    IN  /\ (IsCall /\ ext'.ret.fromCache = "true") => after = before
        /\ (stores /\ Len(before) = MAX_CACHE_SIZE /\ CacheIndex(before, key) = 0)
              => /\ Len(after) = MAX_CACHE_SIZE
                 /\ SubSeq(after, 1, Len(after) - 1) = Tail(before)
                 /\ after[Len(after)].key = key
                 /\ CacheIndex(after, before[1].key) = 0
        /\ dropped >= 0
        /\ newKeys = SubSeq(oldKeys, dropped + 1, Len(oldKeys))
        /\ (stores /\ CacheIndex(before, key) = 0) => after[Len(after)].key = key

C3_FifoEviction == [][C3_Step]_vars

\* the second call stored a new key into a full cache: the oldest entry is gone, whether
\* or not the first call hit it
C3_Witness ==
    /\ ext.n = 2
    /\ ext.computed
    /\ ext.jobUrl = URL_A
    /\ Len(keywordCache) = MAX_CACHE_SIZE
    /\ keywordCache[1].key = FillerUrl(2)
    /\ keywordCache[MAX_CACHE_SIZE].key = URL_A

\* C4: a lookup of key K is a hit exactly when the cache holds an entry of K whose age,
\* now - timestamp, is strictly less than CACHE_EXPIRY_MS (30 minutes); otherwise the
\* entry is reported as absent and the keywords are computed.
C4_Step ==
    (IsCall /\ ~Insufficient(ext'.jobDescription))
        => /\ ext'.ret.fromCache = "true" <=> HasLiveEntry(keywordCache, now, CallKey(ext'))
           /\ ext'.ret.fromCache = "false" <=> ~HasLiveEntry(keywordCache, now, CallKey(ext'))
           /\ ext'.computed <=> ext'.ret.fromCache = "false"

C4_HitIffYoungerThanExpiry == [][C4_Step]_vars

\* the first call looked up an entry that was exactly CACHE_EXPIRY_MS old, and missed
C4_Witness ==
    /\ ext.n = 1
    /\ ext.jobUrl = FillerUrl(1)
    /\ ext.ret.fromCache = "false"
    /\ now = CACHE_EXPIRY_MS
    /\ Len(keywordCache) = MAX_CACHE_SIZE - 1
    /\ keywordCache[1].key = FillerUrl(1)
    /\ keywordCache[1].timestamp = CACHE_EXPIRY_MS

\* C5: once turboExtractKeywords has computed a keyword set and stored it under key K,
\* every later call that resolves to K before the entry is CACHE_EXPIRY_MS old, with no
\* eviction or clear of K in between, returns the same lists and total, with fromCache =
\* true and without running ultraFastExtraction.  Step by step: a computing call leaves
\* under K exactly what it returns, stamped with the time of the call; no step changes an
\* entry it neither stores nor removes; and a call that finds a live entry returns the
\* lists of that entry.
C5_Step ==
    LET before == keywordCache
        after  == keywordCache'
        key    == CallKey(ext')
        stores == IsCall /\ ext'.computed
        others(cache) == SelectSeq(cache, LAMBDA e : ~(stores /\ e.key = key))
        oldEntries == others(before)
        newEntries == others(after)
        dropped == Len(oldEntries) - Len(newEntries)
    IN  /\ stores
              => /\ CacheIndex(after, key) # 0
                 /\ EntryOf(after, key).keywords = KeywordsOf(ext'.ret)
                 /\ EntryOf(after, key).timestamp = now
        /\ dropped >= 0
        /\ newEntries = SubSeq(oldEntries, dropped + 1, Len(oldEntries))
        /\ (IsCall /\ ~Insufficient(ext'.jobDescription) /\ HasLiveEntry(before, now, key))
              => /\ KeywordsOf(ext'.ret) = EntryOf(before, key).keywords
                 /\ ext'.ret.fromCache = "true"
                 /\ ~ext'.computed
                 /\ after = before
        /\ (IsCall /\ ext.computed /\ ~Insufficient(ext'.jobDescription)
                   /\ key = CallKey(ext) /\ HasLiveEntry(before, now, key))
              => /\ KeywordsOf(ext'.ret) = KeywordsOf(ext.ret)
                 /\ ext'.ret.fromCache = "true"
                 /\ ~ext'.computed

C5_StoredSetReadBack == [][C5_Step]_vars

\* the first call computed the keywords of JD_PYTHON under URL_A; the second call, with
\* the same URL and another text, got them back from the cache
C5_Witness ==
    /\ ext.n = 2
    /\ ext.jobUrl = URL_A
    /\ ext.jobDescription = Str(JD_50)
    /\ ext.ret.fromCache = "true"
    /\ ~ext.computed
    /\ KeywordsOf(ext.ret) = ultraFastExtraction(JD_PYTHON, DEFAULT_MAX_KEYWORDS)

\* C6: every keyword set turboExtractKeywords returns, computed or served from the cache,
\* has at most maxKeywords entries in all, for the maxKeywords of that call.
C6_AtMostMaxKeywords == ext.n > 0 => Len(ext.ret.all) <= ext.maxKeywords

\* C7: for a job description that is absent or shorter than MIN_DESCRIPTION_LENGTH (50)
\* characters turboExtractKeywords returns total = 0 and empty lists, whatever the cache
\* holds for the job URL, and leaves the cache as it was.
C7_Step ==
    (IsCall /\ Insufficient(ext'.jobDescription))
        => /\ KeywordsOf(ext'.ret) = EmptyKeywords
           /\ ext'.ret.total = 0
           /\ ~ext'.computed
           /\ keywordCache' = keywordCache

C7_InsufficientInputIsEmpty == [][C7_Step]_vars

\* a text of 49 characters was submitted with a URL for which the cache holds a live entry
C7_Witness ==
    /\ ext.n > 0
    /\ ext.jobDescription = Str(JD_49)
    /\ ext.jobUrl = FillerUrl(1)
    /\ HasLiveEntry(keywordCache, now, FillerUrl(1))
    /\ EntryOf(keywordCache, FillerUrl(1)).keywords.total > 0
    /\ ext.ret.total = 0

\* a step that stores a set under a key the Map already holds
StoresOnExistingKey ==
    IsCall /\ ext'.computed /\ CacheIndex(keywordCache, CallKey(ext')) # 0

\* C27: a store under a key that is already in the cache replaces the value and the
\* timestamp of that entry and removes the entry of no other key, even when the cache
\* holds MAX_CACHE_SIZE entries; the number of entries is the same before and after.
C27_Step ==
    StoresOnExistingKey =>
        /\ Len(keywordCache') = Len(keywordCache)
        /\ CacheKeys(keywordCache') = CacheKeys(keywordCache)
        /\ EntryOf(keywordCache', CallKey(ext')).keywords = KeywordsOf(ext'.ret)
        /\ EntryOf(keywordCache', CallKey(ext')).timestamp = now
        /\ \A i \in 1..Len(keywordCache) :
              keywordCache[i].key # CallKey(ext')
                  => EntryOf(keywordCache', keywordCache[i].key) = keywordCache[i]

C27_StoreOnExistingKeyKeepsOthers == [][C27_Step]_vars

(***************************************************************************)
(* distributeHighPriorityKeywords (lines 174-317)                          *)
(***************************************************************************)
\* the default of options.maxKeywordsPerBullet (line 176)
DEFAULT_MAX_KEYWORDS_PER_BULLET == 3

\* keywords of one synthesized bullet (line 288)
OVERFLOW_CHUNK == 3

\* the synthesized bullets go after the fifth bullet of the section (line 303)
INSERT_AFTER_BULLET == 4

phrases ==
    <<"leveraging", "utilizing", "implementing", "applying", "with expertise in",
      "through", "incorporating", "employing", "using", "via">>

experienceHeadings ==
    << <<"EXPERIENCE">>, <<"WORK", "EXPERIENCE">>, <<"EMPLOYMENT">>,
       <<"PROFESSIONAL", "EXPERIENCE">> >>

nextSectionHeadings ==
    << <<"SKILLS">>, <<"EDUCATION">>, <<"CERTIFICATIONS">>, <<"PROJECTS">>,
       <<"TECHNICAL", "PROFICIENCIES">> >>

\* the class [-@*=>] of line 234 (see the stand-ins in the header)
bulletGlyphs == {"-", "@", "*", "=", ">"}

\* an absent array, and an array
NoList == [defined |-> FALSE, items |-> <<>>]

List(items) == [defined |-> TRUE, items |-> items]

\* the object {}
EmptyObject == [k \in {} |-> 0]

EqualsIgnoreCase(a, b) == ToLowerCase(a) = ToLowerCase(b)

IsWordAt(s, p) == p >= 1 /\ p <= Len(s) /\ CharAt(s, p) \in WordChars

\* \b just before the character at position p (positions from 1)
WordBoundary(s, p) == IsWordAt(s, p - 1) # IsWordAt(s, p)

\* new RegExp('\\b' + escaped kw + '\\b', 'gi').test(text): the escape of line 191 makes
\* every character of kw a literal
WholeWordTest(text, kw) ==
    LET n == Len(kw)
    IN  \E p \in 1..(Len(text) - n + 1) :
           /\ WordBoundary(text, p)
           /\ WordBoundary(text, p + n)
           /\ EqualsIgnoreCase(SubSeq(text, p, p + n - 1), kw)

\* the first position from p on that holds no character of class (Len(s) + 1 if none)
SkipRun(s, p, class) ==
    CHOOSE q \in p..(Len(s) + 1) :
        /\ q = Len(s) + 1 \/ CharAt(s, q) \notin class
        /\ \A r \in p..(q - 1) : CharAt(s, r) \in class

RECURSIVE MatchWords(_, _, _)
\* the words of one alternative, \s* between them, matched at p without regard to
\* case: the position after the match, or 0
MatchWords(s, p, words) ==
    LET w == Head(words)
        q == p + Len(w)
    IN  IF q - 1 > Len(s) \/ ~EqualsIgnoreCase(SubSeq(s, p, q - 1), w) THEN 0
        ELSE IF Len(words) = 1 THEN q
        ELSE MatchWords(s, SkipRun(s, q, WhiteSpace), Tail(words))

MinOf(S) == CHOOSE x \in S : \A y \in S : x <= y

MaxOf(S) == CHOOSE x \in S : \A y \in S : y <= x

\* the position after the last of the line feeds at the positions feeds, or 0
AfterLastFeed(feeds) == IF feeds = {} THEN 0 ELSE MaxOf(feeds) + 1

\* [\s:]*\n matched at q, greedy: the position after the last line feed of the run of
\* white space and colons that starts at q, or 0
MatchHeadingEnd(s, q) ==
    AfterLastFeed({r \in q..(SkipRun(s, q, WhiteSpace \cup {":"}) - 1) : CharAt(s, r) = "\n"})

\* the end of a match whose words end at q, or 0 when the words did not match
EndAfterWords(s, q) == IF q = 0 THEN 0 ELSE MatchHeadingEnd(s, q)

\* the first entry other than 0, or 0: the alternatives of a regular expression are
\* tried from left to right
FirstMatch(ends) ==
    IF \A k \in 1..Len(ends) : ends[k] = 0 THEN 0
    ELSE ends[MinOf({k \in 1..Len(ends) : ends[k] # 0})]

\* \n(alternative|...)[\s:]*\n matched at p: the position after the match, or 0
MatchHeadingAt(s, p, headings) ==
    IF CharAt(s, p) # "\n" THEN 0
    ELSE FirstMatch([k \in 1..Len(headings) |->
                        EndAfterWords(s, MatchWords(s, p + 1, headings[k]))])

NoMatch == [found |-> FALSE, index |-> 0, length |-> 0]

\* the match that starts at the least of the positions starts and ends before end
Leftmost(starts, end(_)) ==
    IF starts = {} THEN NoMatch
    ELSE [found |-> TRUE, index |-> MinOf(starts) - 1,
          length |-> end(MinOf(starts)) - MinOf(starts)]

\* /\n(...)[\s:]*\n/im.exec(s): the leftmost match, index counted from 0
ExecHeading(s, headings) ==
    Leftmost({p \in 1..Len(s) : MatchHeadingAt(s, p, headings) # 0},
             LAMBDA p : MatchHeadingAt(s, p, headings))

\* the pieces of s between the line feeds at the positions feeds
SplitAt(s, feeds) ==
    [k \in 1..(Len(feeds) + 1) |->
        SubSeq(s, IF k = 1 THEN 1 ELSE feeds[k - 1] + 1,
                  IF k = Len(feeds) + 1 THEN Len(s) ELSE feeds[k] - 1)]

\* String.prototype.split('\n')
SplitLines(s) == SplitAt(s, Ascending({p \in 1..Len(s) : CharAt(s, p) = "\n"}))

RECURSIVE Join(_, _)
\* Array.prototype.join
Join(items, sep) ==
    IF items = <<>> THEN ""
    ELSE IF Len(items) = 1 THEN items[1]
    ELSE Join(SubSeq(items, 1, Len(items) - 1), sep) \o sep \o items[Len(items)]

\* s up to the last of the positions solid
UpToLast(s, solid) == IF solid = {} THEN "" ELSE SubSeq(s, 1, MaxOf(solid))

\* String.prototype.trimEnd
TrimEnd(s) == UpToLast(s, {p \in 1..Len(s) : CharAt(s, p) \notin WhiteSpace})

\* String.prototype.trimStart
TrimStart(s) == SubSeq(s, SkipRun(s, 1, WhiteSpace), Len(s))

\* String.prototype.trim
Trim(s) == TrimStart(TrimEnd(s))

\* /^[-@*=>]\s/.test(trimmed)
StartsBullet(trimmed) ==
    /\ Len(trimmed) >= 2
    /\ CharAt(trimmed, 1) \in bulletGlyphs
    /\ CharAt(trimmed, 2) \in WhiteSpace

\* lines 233-234
IsBulletLine(line) == StartsBullet(Trim(line))

\* the indexes (from 1) of the bullet lines, in document order (lines 230-237)
BulletLines(lines) == Ascending({i \in 1..Len(lines) : IsBulletLine(lines[i])})

\* the quotient rounded down
CeilDiv_Floor(a, b) == a \div b

\* Math.ceil(a / b) for a >= 0 and b > 0
CeilDiv(a, b) == (a + b - 1) \div b

\* the clause appended to a bullet (lines 262-270)
Injection(phrase, kwsToAdd) ==
    LET n == Len(kwsToAdd)
    IN  IF n = 1 THEN ", " \o phrase \o " " \o kwsToAdd[1]
        ELSE IF n = 2 THEN " " \o phrase \o " " \o kwsToAdd[1] \o " and " \o kwsToAdd[2]
        ELSE " " \o phrase \o " " \o Join(SubSeq(kwsToAdd, 1, n - 1), ", ")
                 \o ", and " \o kwsToAdd[n]

\* lines 272-276
InjectLine(line, injection) ==
    IF Len(line) >= 1 /\ CharAt(line, Len(line)) = "."
    THEN SubSeq(line, 1, Len(line) - 1) \o injection \o "."
    ELSE TrimEnd(line) \o injection

\* a synthesized bullet (lines 291-297)
NewBullet(chunk) ==
    LET n == Len(chunk)
    IN  IF n = 1
        THEN "@ Implemented " \o chunk[1]
                 \o " solutions to enhance operational efficiency and delivery outcomes"
        ELSE IF n = 2
        THEN "@ Applied " \o chunk[1] \o " and " \o chunk[2]
                 \o " methodologies to drive cross-functional improvements"
        ELSE "@ Delivered " \o Join(SubSeq(chunk, 1, n - 1), ", ") \o ", and " \o chunk[n]
                 \o " initiatives across technical teams"

\* chunks of two keywords
Chunks_OfTwo(remaining) ==
    [c \in 1..CeilDiv(Len(remaining), 2) |->
        SubSeq(remaining, 2 * (c - 1) + 1, Min(2 * c, Len(remaining)))]

\* the chunks of the loop of line 288
Chunks(remaining) ==
    [c \in 1..CeilDiv(Len(remaining), OVERFLOW_CHUNK) |->
        SubSeq(remaining, OVERFLOW_CHUNK * (c - 1) + 1,
               Min(OVERFLOW_CHUNK * c, Len(remaining)))]

\* the k-th value of Math.random, in hundredths, when it yields rand[1], rand[2], ...
\* and then the same values again
Draw(rand, k) == rand[((k - 1) % Len(rand)) + 1]

\* the stream of Math.random after its first k values
Rest(rand, k) == [i \in 1..Len(rand) |-> Draw(rand, k + i)]

\* Math.floor(r * n) for the value r of Math.random, counted from 1
PickIndex(r, n) == (r * n) \div 100 + 1

\* getPhrase (line 226) at the k-th draw
getPhrase(rand, k) == phrases[PickIndex(Draw(rand, k), Len(phrases))]

\* lines 258-279 for one bullet: st after the round
InjectInto(st, lineIdx, numToAdd, kwsToAdd, rand) ==
    IF kwsToAdd = <<>>
    THEN [st EXCEPT !.keywordIndex = @ + numToAdd, !.placed = Append(@, <<>>)]
    ELSE [lines        |-> [st.lines EXCEPT
                               ![lineIdx] = InjectLine(@, Injection(getPhrase(rand, st.draws + 1),
                                                                    kwsToAdd))],
          keywordIndex |-> st.keywordIndex + numToAdd,
          added        |-> st.added + Len(kwsToAdd),
          draws        |-> st.draws + 1,
          placed       |-> Append(st.placed, kwsToAdd)]

\* a bullet that takes one keyword less when Math.random yields less than 0.45
InjectNext_CountByDraw(st, lineIdx, missingKeywords, numToAdd, rand) ==
    InjectInto(st, lineIdx, numToAdd,
               Slice(missingKeywords, st.keywordIndex,
                     st.keywordIndex + Max(1, numToAdd - 1 + Draw(rand, st.draws + 1) \div 45)),
               rand)

\* lines 254-255
InjectNext(st, lineIdx, missingKeywords, numToAdd, rand) ==
    InjectInto(st, lineIdx, numToAdd,
               Slice(missingKeywords, st.keywordIndex, st.keywordIndex + numToAdd), rand)

RECURSIVE InjectBullets(_, _, _, _, _, _)
\* the loop of lines 249-280 from its i-th round on; st holds lines, keywordIndex,
\* stats.added, the number of phrases drawn and the keywords given to each bullet;
\* perBullet holds maxKeywordsPerBullet and keywordsPerBullet
InjectBullets(i, st, bulletLines, missingKeywords, perBullet, rand) ==
    IF ~(i <= Len(bulletLines) /\ st.keywordIndex < Len(missingKeywords)) THEN st
    ELSE InjectBullets(
             i + 1,
             InjectNext(st, bulletLines[i], missingKeywords,
                        Min(Min(perBullet.maxKeywordsPerBullet, perBullet.keywordsPerBullet),
                            Len(missingKeywords) - st.keywordIndex),
                        rand),
             bulletLines, missingKeywords, perBullet, rand)

StillMissing_NotCounted(stats, missingKeywords) == stats

\* stats.missing = missingKeywords.length (lines 210 and 240)
StillMissing(stats, missingKeywords) == [stats EXCEPT !.missing = Len(missingKeywords)]

\* what a call went through, beside what it returns
NoTrace ==
    [outcome |-> "guard", missingKeywords |-> <<>>, expStart |-> 0, expEnd |-> 0,
     bulletLines |-> <<>>, placed |-> <<>>, newBullets |-> <<>>, draws |-> 0]

\* every keyword taken as missing, whatever the text holds
MissingKeywords_All(text, allKeywords) == allKeywords

\* the keywords without a match in the text, in their order (lines 187-198)
MissingKeywords(text, allKeywords) ==
    SelectSeq(allKeywords, LAMBDA kw : ~WholeWordTest(ToLowerCase(text), kw))

\* stats after line 198
CountedStats(allKeywords, missingKeywords) ==
    [total |-> Len(allKeywords), alreadyPresent |-> Len(allKeywords) - Len(missingKeywords),
     added |-> 0, missing |-> 0]

\* a return statement of the function, timing left out
Returned(text, stats, trace, outcome) ==
    [tailoredCV |-> Str(text), distributionStats |-> stats,
     trace |-> [trace EXCEPT !.outcome = outcome]]

\* the section taken to run to the end of the text, whatever heading follows
SectionEnd_ToEndOfText(expStart, nextSectionMatch, length) == length

\* lines 216-217
SectionEnd(expStart, nextSectionMatch, length) ==
    IF nextSectionMatch.found THEN expStart + nextSectionMatch.index ELSE length

\* lines 283-316: the overflow bullets, the text put together again, the final stats
Reassemble(text, stats, trace, injected, chunks) ==
    LET added       == injected.added + Len(trace.missingKeywords) - injected.keywordIndex
        insertAfter == trace.bulletLines[Min(INSERT_AFTER_BULLET,
                                             Len(trace.bulletLines) - 1) + 1]
        newBullets  == [c \in 1..Len(chunks) |-> NewBullet(chunks[c])]
        allLines    == SubSeq(injected.lines, 1, insertAfter) \o newBullets
                           \o SubSeq(injected.lines, insertAfter + 1, Len(injected.lines))
    IN  Returned(Substring(text, 0, trace.expStart) \o Join(allLines, "\n")
                     \o Substring(text, trace.expEnd, Len(text)),
                 [stats EXCEPT !.added = added,
                               !.missing = Max(0, Len(trace.missingKeywords) - added)],
                 [trace EXCEPT !.placed = injected.placed, !.newBullets = chunks,
                               !.draws = injected.draws + Len(chunks)],
                 "distributed")

\* the keywords left after the bullets are dropped
DistributeOverBullets_LeftoverDropped(text, stats, trace, injected) ==
    Reassemble(text, stats, trace, injected, <<>>)

\* lines 244-306: the keywords over the bullets, then the chunks of what is left
DistributeOverBullets(text, stats, trace, injected) ==
    Reassemble(text, stats, trace, injected,
               Chunks(Slice(trace.missingKeywords, injected.keywordIndex,
                            Len(trace.missingKeywords))))

\* lines 229-280
DistributeOverLines(text, stats, trace, lines, bulletLines, maxKeywordsPerBullet, rand) ==
    IF bulletLines = <<>>
    THEN Returned(text, StillMissing(stats, trace.missingKeywords), trace, "noBullets")
    ELSE DistributeOverBullets(
             text, stats, [trace EXCEPT !.bulletLines = bulletLines],
             InjectBullets(1, [lines |-> lines, keywordIndex |-> 0, added |-> 0,
                               draws |-> 0, placed |-> <<>>],
                           bulletLines, trace.missingKeywords,
                           [maxKeywordsPerBullet |-> maxKeywordsPerBullet,
                            keywordsPerBullet    |->
                                CeilDiv(Len(trace.missingKeywords), Len(bulletLines))],
                           rand))

\* lines 219-237
DistributeInSection(text, stats, trace, lines, maxKeywordsPerBullet, rand) ==
    DistributeOverLines(text, stats, trace, lines, BulletLines(lines),
                        maxKeywordsPerBullet, rand)

\* lines 214-219
DistributeFrom(text, stats, trace, expStart, expEnd, maxKeywordsPerBullet, rand) ==
    DistributeInSection(text, stats, [trace EXCEPT !.expStart = expStart, !.expEnd = expEnd],
                        SplitLines(Substring(text, expStart, expEnd)),
                        maxKeywordsPerBullet, rand)

\* lines 214-217
DistributeAfter(text, stats, trace, expStart, maxKeywordsPerBullet, rand) ==
    DistributeFrom(text, stats, trace, expStart,
                   SectionEnd(expStart,
                              ExecHeading(Substring(text, expStart, Len(text)),
                                          nextSectionHeadings),
                              Len(text)),
                   maxKeywordsPerBullet, rand)

\* lines 207-214
DistributeAtHeading(text, stats, trace, expMatch, maxKeywordsPerBullet, rand) ==
    IF ~expMatch.found
    THEN Returned(text, StillMissing(stats, trace.missingKeywords), trace, "noSection")
    ELSE DistributeAfter(text, stats, trace, expMatch.index + expMatch.length,
                         maxKeywordsPerBullet, rand)

\* lines 202-207
DistributeMissing(text, stats, missingKeywords, maxKeywordsPerBullet, rand) ==
    IF missingKeywords = <<>>
    THEN Returned(text, stats, NoTrace, "allPresent")
    ELSE DistributeAtHeading(text, stats, [NoTrace EXCEPT !.missingKeywords = missingKeywords],
                             ExecHeading(text, experienceHeadings),
                             maxKeywordsPerBullet, rand)

\* lines 182-202
DistributeKeywords(text, allKeywords, missingKeywords, maxKeywordsPerBullet, rand) ==
    DistributeMissing(text, CountedStats(allKeywords, missingKeywords), missingKeywords,
                      maxKeywordsPerBullet, rand)

\* distributeHighPriorityKeywords(cvText, allKeywords, { maxKeywordsPerBullet }) when
\* Math.random yields rand[1], rand[2], ... ; timing is left out
distributeHighPriorityKeywords(cvText, allKeywords, maxKeywordsPerBullet, rand) ==
    IF ~cvText.defined \/ cvText.text = "" \/ ~allKeywords.defined \/ allKeywords.items = <<>>
    THEN [tailoredCV |-> cvText, distributionStats |-> EmptyObject, trace |-> NoTrace]
    ELSE DistributeKeywords(cvText.text, allKeywords.items,
                            MissingKeywords(cvText.text, allKeywords.items),
                            maxKeywordsPerBullet, rand)

(***************************************************************************)
(* The distributor as a state machine: a call is drawn, then made          *)
(***************************************************************************)
CV_TWO_BULLETS ==
    "Jane Doe\nEXPERIENCE\nAcme Corp\n- Built Python services.\n- Led a team of five  \nSKILLS\nPython, SQL"

CV_NO_HEADING == "Jane Doe\nPROFILE\n- Built Python services."

\* the heading is the first line: no line feed before it
CV_HEADING_FIRST == "EXPERIENCE\n- Built Python services.\n"

CV_NO_BULLETS ==
    "Jane Doe\nWork Experience:\n\nAcme Corp, engineer\n-no space after the dash\nEDUCATION\nMIT"

CV_ONE_BULLET == "Jane Doe\nProfessional  Experience\n\t@ Shipped code in C#"

CV_SIX_BULLETS ==
    "Jane Doe\nEMPLOYMENT :\nAcme\n* one\n* two.\n* three\nInitech\n* four\n* five\n* six\nPROJECTS\n* aws"

\* a heading that only the distributor takes for the next section
CV_PROFICIENCIES ==
    "Jane Doe\nEXPERIENCE\n- Built services\nTECHNICAL PROFICIENCIES\n- Python\nEDUCATION\nMIT"

ResumeTexts ==
    {Undefined, Str("")} \cup
    {Str(t) : t \in {CV_TWO_BULLETS, CV_NO_HEADING, CV_HEADING_FIRST, CV_NO_BULLETS,
                     CV_ONE_BULLET, CV_SIX_BULLETS, CV_PROFICIENCIES}}

KeywordLists ==
    {NoList, List(<<>>), List(<<"python">>), List(<<"Python", "sql">>),
     List(<<"python", "kubernetes", "aws">>), List(<<"c#", "node.js">>),
     List(<<"kubernetes", "aws", "docker", "terraform", "kafka", "redis", "linux",
            "sql">>),
     List(<<"kubernetes", "aws", "docker", "terraform", "kafka">>)}

MaxKeywordsPerBulletChoices == 0..DEFAULT_MAX_KEYWORDS_PER_BULLET

\* values of Math.random, in hundredths: they pick the first phrase and the one of
\* several words
RandomValues == {0, 45}

\* the draws of a call: one for each line that can be a bullet
RandomDraws(cvText) ==
    [1..Len(BulletLines(SplitLines(cvText.text))) -> RandomValues]

DistCalls ==
    UNION {{[phase |-> "drawn", cvText |-> cv, allKeywords |-> kws,
             maxKeywordsPerBullet |-> cap, rand |-> rand] :
                kws \in KeywordLists, cap \in MaxKeywordsPerBulletChoices,
                rand \in RandomDraws(cv)} : cv \in ResumeTexts}

InitDist ==
    /\ keywordCache = <<>>
    /\ now = 0
    /\ ext = NoCall
    /\ dist \in DistCalls
    /\ UniqueCVEngine = FALSE
    /\ runs = NoRuns
    /\ extraction = NoExtraction
    /\ NoContentScript

\* the drawn call of distributeHighPriorityKeywords is made
Distribute ==
    /\ dist.phase = "drawn"
    /\ dist' = [phase |-> "done", cvText |-> dist.cvText, allKeywords |-> dist.allKeywords,
                maxKeywordsPerBullet |-> dist.maxKeywordsPerBullet, rand |-> dist.rand,
                ret |-> distributeHighPriorityKeywords(dist.cvText, dist.allKeywords,
                                                       dist.maxKeywordsPerBullet, dist.rand)]
    /\ UNCHANGED <<cacheVars, UniqueCVEngine, runs, extraction, contentVars>>

NextDist == Distribute

SpecDist == InitDist /\ [][NextDist]_vars

(***************************************************************************)
(* Properties of the distributor                                           *)
(***************************************************************************)
Distributed == dist.phase = "done"

\* the keywords of the call that have no whole-word match in the text of the call
MissingOf(call) ==
    SelectSeq(call.allKeywords.items,
              LAMBDA kw : ~WholeWordTest(ToLowerCase(call.cvText.text), kw))

StatsFields == {"total", "alreadyPresent", "added", "missing"}

\* C1: after every call of distributeHighPriorityKeywords, whatever the text and the
\* keyword list (empty and absent lists included), the returned distributionStats has
\* alreadyPresent + added + missing = total.
C1_StatsSumToTotal ==
    Distributed =>
        LET stats == dist.ret.distributionStats
        IN  /\ StatsFields \subseteq DOMAIN stats
            /\ stats.alreadyPresent + stats.added + stats.missing = stats.total

\* C10: when at least one keyword is missing and the call finds no experience heading,
\* or finds the section but no bullet line in it, it returns the text it was given,
\* with added = 0 and stats.missing = the number of missing keywords.
C10_NoSectionOrNoBullets ==
    (/\ Distributed
     /\ dist.ret.trace.outcome \in {"noSection", "noBullets"})
        => /\ MissingOf(dist) # <<>>
           /\ dist.ret.tailoredCV = dist.cvText
           /\ dist.ret.distributionStats.added = 0
           /\ dist.ret.distributionStats.missing = Len(MissingOf(dist))
           /\ dist.ret.trace.newBullets = <<>>

C10_Witness ==
    /\ Distributed
    /\ dist.ret.trace.outcome = "noBullets"
    /\ dist.cvText = Str(CV_NO_BULLETS)
    /\ Len(MissingOf(dist)) = 3

\* the end of the experience heading the distributor detects in text (0 when it detects
\* none), and the start of the next heading it recognizes after it (the end of the
\* text when it recognizes none); positions counted from 0
DetectedStart(text) ==
    LET expMatch == ExecHeading(text, experienceHeadings)
    IN  IF expMatch.found THEN expMatch.index + expMatch.length ELSE 0

DetectedEnd(text) ==
    LET expStart == DetectedStart(text)
        next     == ExecHeading(Substring(text, expStart, Len(text)), nextSectionHeadings)
    IN  IF next.found THEN expStart + next.index ELSE Len(text)

\* C11: for every call, the returned text equals the given text outside the detected
\* experience section: the text up to and including the experience heading and the text
\* from the next recognized heading to the end are unchanged, and whatever was rewritten
\* or synthesized lies between them; a call that detects no section returns its text.
C11_OutsideTheSectionUnchanged ==
    (Distributed /\ dist.cvText.defined) =>
        LET input  == dist.cvText.text
            output == dist.ret.tailoredCV.text
            before == DetectedStart(input)
            after  == Len(input) - DetectedEnd(input)
        IN  /\ dist.ret.tailoredCV.defined
            /\ Len(output) >= before + after
            /\ Substring(output, 0, before) = Substring(input, 0, before)
            /\ Substring(output, Len(output) - after, Len(output))
                   = Substring(input, DetectedEnd(input), Len(input))
            /\ dist.ret.trace.outcome # "distributed" => output = input

\* bullets were rewritten and a bullet synthesized in a section with text on both sides
C11_Witness ==
    /\ Distributed
    /\ dist.cvText = Str(CV_SIX_BULLETS)
    /\ dist.ret.trace.outcome = "distributed"
    /\ dist.ret.trace.newBullets # <<>>
    /\ dist.ret.trace.placed # <<>>
    /\ DetectedStart(dist.cvText.text) > 0
    /\ DetectedEnd(dist.cvText.text) < Len(dist.cvText.text)
    /\ dist.ret.tailoredCV # dist.cvText

\* every keyword of the call has a whole-word match in the text, without regard to case
AllPresent(call) ==
    \A k \in 1..Len(call.allKeywords.items) :
        WholeWordTest(call.cvText.text, call.allKeywords.items[k])

\* C12: when the list holds keywords and every one of them already has a whole-word,
\* case-insensitive match in the text, the call injects nothing: it returns the text it
\* was given, with added = 0, missing = 0 and alreadyPresent = total.
C12_AllPresentNoInjection ==
    (/\ Distributed
     /\ dist.cvText.defined
     /\ dist.allKeywords.defined
     /\ dist.allKeywords.items # <<>>
     /\ AllPresent(dist))
        => /\ dist.ret.tailoredCV = dist.cvText
           /\ dist.ret.distributionStats =
                  [total          |-> Len(dist.allKeywords.items),
                   alreadyPresent |-> Len(dist.allKeywords.items),
                   added          |-> 0,
                   missing        |-> 0]
           /\ dist.ret.trace.placed = <<>>
           /\ dist.ret.trace.newBullets = <<>>
           /\ dist.ret.trace.draws = 0

\* two keywords, written in the text in another case than in the list
C12_Witness ==
    /\ Distributed
    /\ dist.cvText = Str(CV_TWO_BULLETS)
    /\ dist.allKeywords = List(<<"Python", "sql">>)
    /\ AllPresent(dist)
    /\ dist.ret.trace.outcome = "allPresent"

\* the call of the state made again with Math.random yielding 0 at every draw
WithZeroDraws(call) ==
    distributeHighPriorityKeywords(call.cvText, call.allKeywords, call.maxKeywordsPerBullet,
                                   [i \in DOMAIN call.rand |-> 0])

\* the line b with one connective phrase at some place put for another
OtherPhrase(a, b) ==
    \E p \in DOMAIN phrases, q \in DOMAIN phrases :
        \E k \in 0..(Len(b) - Len(phrases[q])) :
            /\ SubSeq(b, k + 1, k + Len(phrases[q])) = phrases[q]
            /\ a = SubSeq(b, 1, k) \o phrases[p]
                       \o SubSeq(b, k + Len(phrases[q]) + 1, Len(b))

\* two texts with the same lines, but for the connective phrase of a line
SameButPhrases(a, b) ==
    /\ Len(a) = Len(b)
    /\ \A i \in 1..Len(a) : a[i] = b[i] \/ OtherPhrase(a[i], b[i])

\* the keywords given to each bullet and to each new bullet, the bullets, and the stats
Placement(ret) ==
    [bulletLines |-> ret.trace.bulletLines, placed |-> ret.trace.placed,
     newBullets |-> ret.trace.newBullets, stats |-> ret.distributionStats,
     outcome |-> ret.trace.outcome]

SameAsWith(ret, other) ==
    /\ Placement(ret) = Placement(other)
    /\ ret.tailoredCV.defined = other.tailoredCV.defined
    /\ ret.tailoredCV.defined
          => SameButPhrases(SplitLines(ret.tailoredCV.text), SplitLines(other.tailoredCV.text))

\* C20: two calls of distributeHighPriorityKeywords on the same text, keyword list and
\* options give the same keywords to the same existing and new bullets in the same
\* order and return the same stats, whatever Math.random yields; their texts differ
\* at most in the connective phrase of an injected clause.  Every call is compared
\* with the call whose draws are all 0, so any two calls are.
C20_PlacementIndependentOfDraws ==
    Distributed => SameAsWith(dist.ret, WithZeroDraws(dist))

\* a call with keywords put into bullets and into a new bullet, whose text is not the
\* one of the call with draws all 0
C20_Witness ==
    /\ Distributed
    /\ dist.ret.trace.outcome = "distributed"
    /\ \E i \in DOMAIN dist.ret.trace.placed : Len(dist.ret.trace.placed[i]) >= 2
    /\ dist.ret.trace.newBullets # <<>>
    /\ \E i \in DOMAIN dist.rand : dist.rand[i] # 0
    /\ dist.ret.tailoredCV # WithZeroDraws(dist).tailoredCV

\* the number of keywords the bullets before the i-th have taken
RECURSIVE TakenBefore(_, _)
TakenBefore(placed, i) ==
    IF i <= 1 THEN 0 ELSE TakenBefore(placed, i - 1) + Len(placed[i - 1])

\* the lines of the section of the text, as given and as returned
SectionLines(text, from, to) == SplitLines(Substring(text, from, to))

\* where the i-th bullet of the given section stands in the returned section: the new
\* bullets come after the fifth bullet, or after the last one
ReturnedLineOf(trace, i) ==
    trace.bulletLines[i]
        + (IF trace.bulletLines[i]
                 > trace.bulletLines[Min(INSERT_AFTER_BULLET, Len(trace.bulletLines) - 1) + 1]
           THEN Len(trace.newBullets) ELSE 0)

\* the i-th bullet was given the keywords kws: its line, before in the given section
\* and after in the returned one, holds each of them after the text it had, or is the
\* line it was when kws is empty
BulletHolds(before, after, kws) ==
    IF kws = <<>> THEN after = before
    ELSE /\ Len(after) > Len(before)
         /\ \A k \in 1..Len(kws) :
               Includes(SubSeq(after, Len(TrimEnd(before)), Len(after)), kws[k])

\* the bullets of the section given, served in order from the queue missing, each with
\* the next min(cap, perBullet, remaining) keywords; back is the section returned
ServedInOrder(missing, given, back, bullets, perBullet, cap, trace) ==
    /\ bullets # <<>>
    /\ trace.bulletLines = bullets
    /\ Len(trace.placed) <= Len(bullets)
    /\ \A i \in 1..Len(bullets) :
          LET taken  == TakenBefore(trace.placed, Min(i, Len(trace.placed) + 1))
              number == Min(Min(cap, perBullet), Len(missing) - taken)
              kws    == IF i <= Len(trace.placed) THEN trace.placed[i] ELSE <<>>
          IN  /\ kws = SubSeq(missing, taken + 1, taken + number)
              /\ Len(kws) <= cap
              /\ BulletHolds(given[bullets[i]], back[ReturnedLineOf(trace, i)], kws)

ServedFrom(missing, given, back, bullets, cap, trace) ==
    ServedInOrder(missing, given, back, bullets,
                  (Len(missing) + Len(bullets) - 1) \div Max(1, Len(bullets)), cap, trace)

ServedBetween(input, output, from, to, cap, trace) ==
    ServedFrom(MissingOf(dist), SectionLines(input, from, to),
               SectionLines(output, from, Len(output) - (Len(input) - to)),
               BulletLines(SectionLines(input, from, to)), cap, trace)

ServedAfter(input, output, from, cap, trace) ==
    ServedBetween(input, output, from,
                  SectionEnd(from, ExecHeading(Substring(input, from, Len(input)),
                                               nextSectionHeadings), Len(input)),
                  cap, trace)

\* a bullet of the section is given no keyword only when the queue is empty
NoneOnlyWhenEmpty(missing, trace) ==
    \A i \in 1..Len(trace.bulletLines) :
        (i > Len(trace.placed) \/ trace.placed[i] = <<>>)
            => TakenBefore(trace.placed, Min(i, Len(trace.placed) + 1)) = Len(missing)

\* C21 as stated: with perBullet = ceil(missingCount / bulletCount), the bullets of the
\* section are served in document order and the i-th bullet gets exactly the next
\* min(maxKeywordsPerBullet, perBullet, remaining) keywords from the front of the missing
\* queue: keywords keep their order, no existing bullet gets more than
\* maxKeywordsPerBullet, and a bullet gets none only when the queue is empty.
C21_EvenDistributionAsStated ==
    (Distributed /\ dist.ret.trace.outcome = "distributed") =>
        /\ ServedAfter(dist.cvText.text, dist.ret.tailoredCV.text,
                       DetectedStart(dist.cvText.text), dist.maxKeywordsPerBullet,
                       dist.ret.trace)
        /\ NoneOnlyWhenEmpty(MissingOf(dist), dist.ret.trace)

\* C21, amended: the bullets are served in document order, the i-th with exactly the
\* next min(maxKeywordsPerBullet, perBullet, remaining) keywords of the queue, in their
\* order and never more than maxKeywordsPerBullet; when maxKeywordsPerBullet is 1 or
\* more a bullet gets none only when the queue is empty, and when it is 0 no bullet
\* gets any.
C21_EvenDistribution ==
    (Distributed /\ dist.ret.trace.outcome = "distributed") =>
        /\ ServedAfter(dist.cvText.text, dist.ret.tailoredCV.text,
                       DetectedStart(dist.cvText.text), dist.maxKeywordsPerBullet,
                       dist.ret.trace)
        /\ IF dist.maxKeywordsPerBullet >= 1
           THEN NoneOnlyWhenEmpty(MissingOf(dist), dist.ret.trace)
           ELSE \A i \in DOMAIN dist.ret.trace.placed : dist.ret.trace.placed[i] = <<>>

\* seven keywords over six bullets: two for each of the first three, one for the
\* fourth, none left for the last two
C21_Witness ==
    /\ Distributed
    /\ dist.ret.trace.outcome = "distributed"
    /\ dist.cvText = Str(CV_SIX_BULLETS)
    /\ Len(MissingOf(dist)) = 7
    /\ dist.maxKeywordsPerBullet = 3
    /\ dist.ret.trace.placed = <<<<"kubernetes", "docker">>, <<"terraform", "kafka">>,
                                 <<"redis", "linux">>, <<"sql">>>>

\* the c-th of the chunks of three of the last r keywords of the queue
ChunkOfLeftover(missing, r, c) ==
    SubSeq(missing, Len(missing) - r + 3 * (c - 1) + 1,
           Min(Len(missing) - r + 3 * c, Len(missing)))

\* a line of the returned text that the given text does not have holds the keywords
InNewLine(given, back, kws) ==
    \E l \in 1..Len(back) :
        /\ \A g \in 1..Len(given) : given[g] # back[l]
        /\ \A k \in 1..Len(kws) : Includes(back[l], kws[k])

\* new bullets are made if and only if r > 0 keywords are left over, and then
\* ceil(r / 3) of them, each with the next 1 to 3 keywords of the queue
OverflowBullets(missing, r, newBullets, given, back) ==
    /\ (newBullets # <<>>) <=> (r > 0)
    /\ r > 0 => Len(newBullets) = (r + 2) \div 3
    /\ \A c \in 1..Len(newBullets) :
          /\ Len(newBullets[c]) \in 1..3
          /\ newBullets[c] = ChunkOfLeftover(missing, r, c)
          /\ InNewLine(given, back, newBullets[c])
    /\ Len(back) = Len(given) + Len(newBullets)

\* C22: overflow bullets are synthesized if and only if missingCount > bulletCount *
\* maxKeywordsPerBullet; there are then exactly ceil(r / 3) new bullets for the
\* r = missingCount - bulletCount * maxKeywordsPerBullet keywords left over, each with
\* 1 to 3 of them in the order of the queue.
C22_OverflowBullets ==
    (Distributed /\ dist.ret.trace.outcome = "distributed") =>
        OverflowBullets(MissingOf(dist),
                        Len(MissingOf(dist))
                            - Len(dist.ret.trace.bulletLines) * dist.maxKeywordsPerBullet,
                        dist.ret.trace.newBullets,
                        SplitLines(dist.cvText.text), SplitLines(dist.ret.tailoredCV.text))

\* seven missing keywords over two bullets that take three each: one new bullet with
\* the seventh
C22_Witness ==
    /\ Distributed
    /\ dist.ret.trace.outcome = "distributed"
    /\ dist.cvText = Str(CV_TWO_BULLETS)
    /\ Len(MissingOf(dist)) = 7
    /\ dist.maxKeywordsPerBullet = 3
    /\ Len(dist.ret.trace.bulletLines) = 2
    /\ dist.ret.trace.newBullets = <<<<"linux">>>>
    /\ dist.ret.distributionStats.added = 7

(***************************************************************************)
(* fastTailorWorkExperience (lines 388-451)                                *)
(***************************************************************************)
\* the keywords one bullet takes (line 420)
MAX_INJECT_PER_BULLET == 3

patterns ==
    <<", incorporating {} principles", " with focus on {}", ", leveraging {}",
      " utilizing {} methodologies", " through {} implementation">>

fallbackSectionHeadings ==
    << <<"SKILLS">>, <<"EDUCATION">>, <<"CERTIFICATIONS">>, <<"PROJECTS">> >>

\* the glyphs of lines 413 and 431
fallbackBulletGlyphs == {"-", "@", "*"}

\* the characters after which ^ and before which $ match with the flag m
LineTerminators == {"\n", "\r"}

\* the end of [\s:]*$ when the run of white space and colons stops at stop and holds
\* line terminators at the positions ends
LineEndIn(s, stop, ends) ==
    IF stop = Len(s) + 1 THEN stop
    ELSE IF ends = {} THEN 0
    ELSE MaxOf(ends)

\* the line terminators from q on and before stop
TerminatorsIn(s, q, stop) == {r \in q..(stop - 1) : CharAt(s, r) \in LineTerminators}

\* the end of [\s:]*$ at q when the run stops at stop
LineEndBefore(s, q, stop) == LineEndIn(s, stop, TerminatorsIn(s, q, stop))

\* [\s:]*$ matched at q, greedy, with the flag m: the position after the match, or 0
MatchLineEnd(s, q) == LineEndBefore(s, q, SkipRun(s, q, WhiteSpace \cup {":"}))

\* the end of a match whose words end at q, or 0 when the words did not match
LineEndAfterWords(s, q) == IF q = 0 THEN 0 ELSE MatchLineEnd(s, q)

\* ^(alternative|...)[\s:]*$ matched at p: the position after the match, or 0
MatchLineAt(s, p, headings) ==
    IF ~(p = 1 \/ CharAt(s, p - 1) \in LineTerminators) THEN 0
    ELSE FirstMatch([k \in 1..Len(headings) |->
                        LineEndAfterWords(s, MatchWords(s, p, headings[k]))])

\* /^(...)[\s:]*$/im.exec(s): the leftmost match, index counted from 0
ExecLineHeading(s, headings) ==
    Leftmost({p \in 1..Len(s) : MatchLineAt(s, p, headings) # 0},
             LAMBDA p : MatchLineAt(s, p, headings))

\* s with by in the place of its n characters from p on
ReplaceAt(s, p, n, by) == SubSeq(s, 1, p - 1) \o by \o SubSeq(s, p + n, Len(s))

\* s with by in the place of search at the least of the positions hits
ReplaceLeftmost(s, hits, search, by) ==
    IF hits = {} THEN s ELSE ReplaceAt(s, MinOf(hits), Len(search), by)

\* String.prototype.replace(search, by) for strings without $ in by
ReplaceFirst(s, search, by) ==
    ReplaceLeftmost(s, {p \in 1..(Len(s) - Len(search) + 1) :
                           SubSeq(s, p, p + Len(search) - 1) = search},
                    search, by)

\* trimmed.startsWith('-') || trimmed.startsWith('@') || trimmed.startsWith('*')
IsFallbackBullet(trimmed) ==
    Len(trimmed) >= 1 /\ CharAt(trimmed, 1) \in fallbackBulletGlyphs

\* trimmed.replace(/^[-@*]\s*/, '')
StripBullet(trimmed) ==
    IF IsFallbackBullet(trimmed)
    THEN SubSeq(trimmed, SkipRun(trimmed, 2, WhiteSpace), Len(trimmed))
    ELSE trimmed

RECURSIVE CollectToInject(_, _, _, _)
\* the loop of lines 420-426: the keywords taken and keywordIndex afterwards
CollectToInject(line, missingKeywords, keywordIndex, toInject) ==
    IF ~(Len(toInject) < MAX_INJECT_PER_BULLET /\ keywordIndex < Len(missingKeywords))
    THEN [toInject |-> toInject, keywordIndex |-> keywordIndex]
    ELSE LET kw == missingKeywords[keywordIndex + 1]
         IN  CollectToInject(line, missingKeywords, keywordIndex + 1,
                             IF ~Includes(ToLowerCase(line), ToLowerCase(kw))
                             THEN Append(toInject, kw) ELSE toInject)

\* lines 433-435
FallbackInjection(pattern, toInject) ==
    IF Len(toInject) = 1 THEN ReplaceFirst(pattern, "{}", toInject[1])
    ELSE ReplaceFirst(pattern, "{}",
                      Join(SubSeq(toInject, 1, Len(toInject) - 1), ", ")
                          \o " and " \o toInject[Len(toInject)])

\* lines 437-441
AppendInjection(bulletContent, injection) ==
    IF Len(bulletContent) >= 1 /\ CharAt(bulletContent, Len(bulletContent)) = "."
    THEN SubSeq(bulletContent, 1, Len(bulletContent) - 1) \o injection \o "."
    ELSE bulletContent \o injection

\* lines 431-444: the rewritten bullet
RewriteBullet(trimmed, toInject, pattern) ==
    "- " \o AppendInjection(StripBullet(trimmed), FallbackInjection(pattern, toInject))

\* line 430 at the k-th draw
getPattern(rand, k) == patterns[PickIndex(Draw(rand, k), Len(patterns))]

\* lines 428-444 for the i-th line, a bullet, when the loop of line 420 took taken
TailorBullet(st, i, trimmed, taken, rand) ==
    IF taken.toInject = <<>>
    THEN [st EXCEPT !.keywordIndex = taken.keywordIndex]
    ELSE [lines        |-> [st.lines EXCEPT
                               ![i] = RewriteBullet(trimmed, taken.toInject,
                                                    getPattern(rand, st.draws + 1))],
          keywordIndex |-> taken.keywordIndex,
          injected     |-> st.injected \o taken.toInject,
          draws        |-> st.draws + 1]

\* lines 412-444 for the i-th line
TailorLine(st, i, trimmed, missingKeywords, rand) ==
    IF ~IsFallbackBullet(trimmed) \/ st.keywordIndex >= Len(missingKeywords) THEN st
    ELSE TailorBullet(st, i, trimmed,
                      CollectToInject(st.lines[i], missingKeywords, st.keywordIndex, <<>>),
                      rand)

RECURSIVE TailorLines(_, _, _, _)
\* lines.map of line 411 from the i-th line on; st holds modifiedLines, keywordIndex,
\* injected and the number of patterns drawn
TailorLines(i, st, missingKeywords, rand) ==
    IF i > Len(st.lines) THEN st
    ELSE TailorLines(i + 1, TailorLine(st, i, Trim(st.lines[i]), missingKeywords, rand),
                     missingKeywords, rand)

\* lines 447-450
TailoredExperience(cvText, expStart, expEnd, modified) ==
    [tailoredCV |-> Substring(cvText, 0, expStart) \o Join(modified.lines, "\n")
                        \o Substring(cvText, expEnd, Len(cvText)),
     injectedKeywords |-> modified.injected,
     draws |-> modified.draws]

\* lines 399-450
TailorSection(cvText, missingKeywords, expStart, expEnd, rand) ==
    TailoredExperience(cvText, expStart, expEnd,
                       TailorLines(1, [lines |-> SplitLines(Substring(cvText, expStart, expEnd)),
                                       keywordIndex |-> 0, injected |-> <<>>, draws |-> 0],
                                   missingKeywords, rand))

\* lines 395-397
TailorAfter(cvText, missingKeywords, expStart, rand) ==
    TailorSection(cvText, missingKeywords, expStart,
                  SectionEnd(expStart,
                             ExecLineHeading(Substring(cvText, expStart, Len(cvText)),
                                             fallbackSectionHeadings),
                             Len(cvText)),
                  rand)

\* lines 393-395
TailorAtHeading(cvText, missingKeywords, expMatch, rand) ==
    IF ~expMatch.found
    THEN [tailoredCV |-> cvText, injectedKeywords |-> <<>>, draws |-> 0]
    ELSE TailorAfter(cvText, missingKeywords, expMatch.index + expMatch.length, rand)

\* fastTailorWorkExperience(cvText, missingKeywords) when Math.random yields rand[1], ...
fastTailorWorkExperience(cvText, missingKeywords, rand) ==
    TailorAtHeading(cvText, missingKeywords, ExecLineHeading(cvText, experienceHeadings), rand)

RECURSIVE Concat(_, _)
\* the sequences seqs[i], seqs[i + 1], ... put end to end
Concat(seqs, i) == IF i > Len(seqs) THEN <<>> ELSE seqs[i] \o Concat(seqs, i + 1)

\* the text has an experience section, from expStart on, with a bullet in it
SectionWithBullet(text, expStart) ==
    /\ expStart > 0
    /\ BulletLines(SectionLines(text, expStart,
                                SectionEnd(expStart,
                                           ExecHeading(Substring(text, expStart, Len(text)),
                                                       nextSectionHeadings),
                                           Len(text)))) # <<>>

\* every keyword of the queue missing went into a bullet or a new bullet, in order
AllPlaced(missing, ret) ==
    /\ "added" \in DOMAIN ret.distributionStats
    /\ ret.distributionStats.added = Len(missing)
    /\ ret.distributionStats.missing = 0
    /\ Concat(ret.trace.placed, 1) \o Concat(ret.trace.newBullets, 1) = missing
    /\ \A k \in 1..Len(missing) : Includes(ret.tailoredCV.text, missing[k])

\* C25: whenever the call finds an experience section with at least one bullet, every
\* missing keyword is placed in an existing or a synthesized bullet: added is the
\* number of missing keywords and stats.missing is 0, for any number of bullets and
\* any cap per bullet.
C25_EveryMissingKeywordPlaced ==
    (/\ Distributed
     /\ dist.cvText.defined
     /\ dist.allKeywords.defined /\ dist.allKeywords.items # <<>>
     /\ SectionWithBullet(dist.cvText.text, DetectedStart(dist.cvText.text)))
        => AllPlaced(MissingOf(dist), dist.ret)

\* eight keywords, all missing, over one bullet that takes one: seven go to three
\* new bullets
C25_Witness ==
    /\ Distributed
    /\ dist.cvText = Str(CV_ONE_BULLET)
    /\ dist.maxKeywordsPerBullet = 1
    /\ Len(MissingOf(dist)) = 8
    /\ Len(dist.ret.trace.newBullets) = 3
    /\ dist.ret.distributionStats.added = 8
    /\ dist.ret.distributionStats.missing = 0

\* the call of the state made again on the text it returned, with the keywords kws
SecondRun(call, kws) ==
    distributeHighPriorityKeywords(call.ret.tailoredCV, List(kws),
                                   call.maxKeywordsPerBullet, call.rand)

\* a second run with kws on the text first returned injects nothing
InjectsNothing(first, kws, second) ==
    /\ second.tailoredCV = first.tailoredCV
    /\ second.distributionStats.added = 0
    /\ second.distributionStats.missing = 0
    /\ second.distributionStats.alreadyPresent = Len(kws)

\* the first half of a list, rounded up
FirstHalf(kws) == SubSeq(kws, 1, (Len(kws) + 1) \div 2)

\* C26: a second run of distributeHighPriorityKeywords on the text a first run
\* returned, with the same keyword list or a sub-list of it, injects nothing: every
\* keyword is counted as alreadyPresent, added is 0 and the text is unchanged, provided
\* the first run found an experience section with bullets.
C26_SecondRunInjectsNothing ==
    (Distributed /\ dist.ret.trace.outcome = "distributed") =>
        /\ InjectsNothing(dist.ret, dist.allKeywords.items,
                          SecondRun(dist, dist.allKeywords.items))
        /\ InjectsNothing(dist.ret, FirstHalf(dist.allKeywords.items),
                          SecondRun(dist, FirstHalf(dist.allKeywords.items)))

\* the section fastTailorWorkExperience detects in text (lines 392-397): whether its
\* heading is found, and where the body ends
FallbackSectionAfter(text, expMatch) ==
    IF ~expMatch.found THEN [found |-> FALSE, expEnd |-> 0]
    ELSE [found  |-> TRUE,
          expEnd |-> SectionEnd(expMatch.index + expMatch.length,
                                ExecLineHeading(Substring(text, expMatch.index + expMatch.length,
                                                          Len(text)),
                                                fallbackSectionHeadings),
                                Len(text))]

FallbackSection(text) == FallbackSectionAfter(text, ExecLineHeading(text, experienceHeadings))

\* the distributor of the state looked for the section: a keyword was missing
LookedForSection == Distributed /\ dist.ret.trace.outcome \in {"noSection", "noBullets", "distributed"}

\* the two agree on the section of text: both find it or both do not, and the body ends
\* before the same heading line (the line feed before that line counted in or not)
SameSection(trace, fallback) ==
    /\ fallback.found <=> (trace.outcome # "noSection")
    /\ fallback.found => fallback.expEnd \in {trace.expEnd, trace.expEnd + 1}

\* C23: for every text, wherever its heading lines are, fastTailorWorkExperience and
\* distributeHighPriorityKeywords agree on whether there is an experience section and
\* on where its body ends.
C23_SameSectionDetection ==
    LookedForSection => SameSection(dist.ret.trace, FallbackSection(dist.cvText.text))

(***************************************************************************)
(* turboTailorCV (lines 320-385)                                           *)
(***************************************************************************)
\* the entries of arr at the positions firsts
EntriesAt(arr, firsts) == [k \in 1..Len(firsts) |-> arr[firsts[k]]]

\* arr.filter((kw, idx, arr) => arr.indexOf(kw) === idx)
Dedupe(arr) ==
    EntriesAt(arr, Ascending({i \in 1..Len(arr) : \A j \in 1..(i - 1) : arr[j] # arr[i]}))

\* global.UniqueCVEngine is not there
NoEngine == [available |-> FALSE]

\* global.UniqueCVEngine.generateUniqueCVForJob is there and will return result
Engine(result) == [available |-> TRUE, result |-> result]

\* lines 343-345
MissingFromText(cvText, keywords) ==
    SelectSeq(keywords, LAMBDA kw : ~Includes(ToLowerCase(cvText), ToLowerCase(kw)))

\* lines 350-354
TailorMissing(cvText, missing, rand) ==
    IF missing # <<>>
    THEN [result |-> fastTailorWorkExperience(cvText, missing, rand),
          calls |-> <<"fastTailorWorkExperience">>]
    ELSE [result |-> [tailoredCV |-> cvText, injectedKeywords |-> <<>>, draws |-> 0],
          calls |-> <<>>]

\* lines 358-363
AllKeywordsToInject(keywords) ==
    Dedupe(keywords.highPriority \o keywords.mediumPriority \o keywords.lowPriority
               \o keywords.workExperience)

\* lines 371-384
FallbackResult(cvText, tailoredCV, injected, calls, draws) ==
    [ret |-> [tailoredCV |-> tailoredCV,
              originalCV |-> cvText,
              injectedKeywords |-> injected,
              stats |-> [total |-> Len(injected), workExperience |-> Len(injected),
                         skills |-> 0],
              uniqueHash |-> ""],
     calls |-> calls, draws |-> draws]

\* distResult.distributionStats?.added ? ... : [] (line 371)
AddedOrZero(distributionStats) ==
    IF "added" \in DOMAIN distributionStats THEN distributionStats.added ELSE 0

\* lines 366-384 after the call of line 366
AfterDistribution(cvText, fast, allKeywordsToInject, distResult) ==
    FallbackResult(cvText, distResult.tailoredCV,
                   fast.result.injectedKeywords
                       \o Slice(allKeywordsToInject, 0, AddedOrZero(distResult.distributionStats)),
                   fast.calls \o <<"distributeHighPriorityKeywords">>,
                   fast.result.draws + distResult.trace.draws)

\* lines 356-384
DistributeAll(cvText, fast, allKeywordsToInject, rand) ==
    IF allKeywordsToInject = <<>>
    THEN FallbackResult(cvText, Str(fast.result.tailoredCV), fast.result.injectedKeywords,
                        fast.calls, fast.result.draws)
    ELSE AfterDistribution(
             cvText, fast, allKeywordsToInject,
             distributeHighPriorityKeywords(Str(fast.result.tailoredCV),
                                            List(allKeywordsToInject),
                                            DEFAULT_MAX_KEYWORDS_PER_BULLET,
                                            Rest(rand, fast.result.draws)))

\* lines 342-385: the fallback
TailorFallback(cvText, keywords, rand) ==
    DistributeAll(cvText,
                  TailorMissing(cvText.text,
                                MissingFromText(cvText.text, keywords.workExperience), rand),
                  AllKeywordsToInject(keywords), rand)

\* turboTailorCV that goes to the fallback whether the engine is there or not
turboTailorCV_IgnoreEngine(cvText, keywords, engine, rand) ==
    IF ~cvText.defined \/ cvText.text = "" \/ keywords.all = <<>>
    THEN [ret |-> [tailoredCV |-> cvText, originalCV |-> Undefined, injectedKeywords |-> <<>>,
                   stats |-> EmptyObject, uniqueHash |-> ""],
          calls |-> <<>>, draws |-> 0]
    ELSE TailorFallback(cvText, keywords, rand)

\* turboTailorCV(cvText, keywords) with the engine as given, when Math.random yields
\* rand[1], ... : the returned object without timing, and the functions called, in order
turboTailorCV(cvText, keywords, engine, rand) ==
    IF ~cvText.defined \/ cvText.text = "" \/ keywords.all = <<>>
    THEN [ret |-> [tailoredCV |-> cvText, originalCV |-> Undefined, injectedKeywords |-> <<>>,
                   stats |-> EmptyObject, uniqueHash |-> ""],
          calls |-> <<>>, draws |-> 0]
    ELSE IF engine.available
    THEN [ret |-> [tailoredCV |-> engine.result.uniqueCV, originalCV |-> cvText,
                   injectedKeywords |-> <<>>, stats |-> engine.result.stats,
                   uniqueHash |-> engine.result.fileHash],
          calls |-> <<"generateUniqueCVForJob">>, draws |-> 0]
    ELSE TailorFallback(cvText, keywords, rand)

(***************************************************************************)
(* executeTurboPipeline (lines 454-521)                                    *)
(***************************************************************************)
\* no jobInfo, and a jobInfo with its description and url
NoJobInfo == [defined |-> FALSE, description |-> Undefined, url |-> Undefined]

JobInfo(description, url) == [defined |-> TRUE, description |-> description, url |-> url]

\* value || ''
OrEmpty(value) == IF value.defined THEN value.text ELSE ""

\* options.maxKeywords || 35, where 0 stands for an absent or zero option
OrDefaultMaxKeywords(maxKeywords) ==
    IF maxKeywords = 0 THEN DEFAULT_MAX_KEYWORDS ELSE maxKeywords

\* lines 455-466: the run up to its first await; turboExtractKeywords has no await
\* of its own, so it is over when the run is suspended
PipelineExtract(cache, clock, jobInfo, maxKeywords) ==
    turboExtractKeywords(cache, clock, Str(OrEmpty(jobInfo.description)),
                         OrEmpty(jobInfo.url), OrDefaultMaxKeywords(maxKeywords))

\* the test of line 469 without .length: an empty array passes it
NoKeywordsExtracted_ArrayAbsent(keywordsResult) == "all" \notin DOMAIN keywordsResult

\* line 469
NoKeywordsExtracted(keywordsResult) == keywordsResult.all = <<>>

\* line 471, timings left out
FailureResult == [success |-> FALSE, error |-> "No keywords extracted"]

PipelineJobs ==
    {NoJobInfo,
     JobInfo(Str(JD_49), Str(URL_A)),
     JobInfo(Str(JD_STOPWORDS), Undefined),
     JobInfo(Str(JD_PYTHON), Str(URL_A))}

\* a text that holds every keyword of JD_PYTHON
CV_ALL_PRESENT == "Jane Doe\nEXPERIENCE\n- Python engineer on AWS and Kubernetes\n"

\* a text that holds "engineer" inside a longer word only
CV_ENGINEERING == "Jane Doe\nEXPERIENCE\n- Senior engineering lead\n"

BaseCVs ==
    {Str(""), Str(CV_TWO_BULLETS), Str(CV_NO_HEADING), Str(CV_NO_BULLETS),
     Str(CV_ALL_PRESENT), Str(CV_ENGINEERING)}

\* Math.random yields the same value again and again
PipelineStreams == {<<v>> : v \in RandomValues}

\* total times around the target
ElapsedTimes == {TIMING_TARGET_TOTAL, TIMING_TARGET_TOTAL + 1}

\* what the external generateUniqueCVForJob may return for a text: the text as it is,
\* or rewritten
UniqueResults(cvText) ==
    {[uniqueCV |-> cvText, stats |-> EmptyObject, fileHash |-> "hash-0"],
     [uniqueCV |-> Str(cvText.text \o "\n- Rewritten for this job"),
      stats |-> [bulletsModified |-> 1], fileHash |-> "hash-1"]}

Engines(available, cvText) ==
    IF available THEN {Engine(result) : result \in UniqueResults(cvText)} ELSE {NoEngine}

\* the keyword sets the jobs of the model yield
PipelineKeywordSets ==
    {k \in {Extraction(OrEmpty(j.description), DEFAULT_MAX_KEYWORDS) : j \in PipelineJobs} :
        k.all # <<>>}

\* the result a table holds for a key, or else the value computed for it
Memo(table, key, value) ==
    IF \E row \in table : row.key = key
    THEN (CHOOSE row \in table : row.key = key).result
    ELSE value

\* turboTailorCV on the inputs of the model, computed once
TailoringTable ==
    UNION {{[key    |-> [cvText |-> cv, keywords |-> k, engine |-> e, rand |-> rand],
             result |-> turboTailorCV(cv, k, e, rand)] :
                k \in PipelineKeywordSets, rand \in PipelineStreams,
                e \in Engines(TRUE, cv) \cup Engines(FALSE, cv)} : cv \in BaseCVs}

\* the call of line 476
Tailoring(cvText, keywords, engine, rand) ==
    Memo(TailoringTable,
         [cvText |-> cvText, keywords |-> keywords, engine |-> engine, rand |-> rand],
         turboTailorCV(cvText, keywords, engine, rand))

\* the call of line 487 for a row of the tailoring table
RowDistribution(cvText, allKeywords, rand) ==
    [key    |-> [cvText |-> cvText, allKeywords |-> allKeywords, rand |-> rand],
     result |-> distributeHighPriorityKeywords(cvText, allKeywords,
                                               DEFAULT_MAX_KEYWORDS_PER_BULLET, rand)]

\* distributeHighPriorityKeywords on what the tailoring of the model returns, computed once
DistributionTable ==
    {RowDistribution(row.result.ret.tailoredCV, List(row.key.keywords.highPriority),
                     Rest(row.key.rand, row.result.draws)) : row \in TailoringTable}

\* the call of line 487: options without maxKeywordsPerBullet
Distribution(cvText, allKeywords, rand) ==
    Memo(DistributionTable,
         [cvText |-> cvText, allKeywords |-> allKeywords, rand |-> rand],
         distributeHighPriorityKeywords(cvText, allKeywords,
                                        DEFAULT_MAX_KEYWORDS_PER_BULLET, rand))

\* lines 509-520 for a total time in milliseconds, the stage timings left out
SuccessResult(keywordsResult, tailorResult, finalCV, distributionStats, totalTime) ==
    [success                 |-> TRUE,
     keywords                |-> keywordsResult,
     workExperienceKeywords  |-> keywordsResult.workExperience,
     tailoredCV              |-> finalCV,
     injectedKeywords        |-> tailorResult.injectedKeywords,
     distributionStats       |-> distributionStats,
     stats                   |-> tailorResult.stats,
     timings                 |-> [total |-> totalTime],
     fromCache               |-> keywordsResult.fromCache,
     meetsTarget             |-> totalTime <= TIMING_TARGET_TOTAL]

\* lines 493-520 after the call of line 487
AfterFinalDistribution(keywordsResult, tailorResult, distResult, totalTime) ==
    [result |-> SuccessResult(keywordsResult, tailorResult, distResult.tailoredCV,
                              distResult.distributionStats, totalTime),
     calls  |-> <<"distributeHighPriorityKeywords">>]

\* a pipeline that gives up when the total time is over the target
PipelineFinish_StopOverTarget(keywordsResult, tailorResult, rand, totalTime) ==
    IF totalTime > TIMING_TARGET_TOTAL
    THEN [result |-> [success |-> FALSE, error |-> "Over the target"], calls |-> <<>>]
    ELSE AfterFinalDistribution(keywordsResult, tailorResult,
                                Distribution(tailorResult.tailoredCV,
                                             List(keywordsResult.highPriority), rand),
                                totalTime)

\* lines 481-520: the returned object and the functions called
PipelineFinish(keywordsResult, tailorResult, rand, totalTime) ==
    IF keywordsResult.highPriority # <<>>
    THEN AfterFinalDistribution(keywordsResult, tailorResult,
                                Distribution(tailorResult.tailoredCV,
                                             List(keywordsResult.highPriority), rand),
                                totalTime)
    ELSE [result |-> SuccessResult(keywordsResult, tailorResult, tailorResult.tailoredCV,
                                   EmptyObject, totalTime),
          calls  |-> <<>>]

(***************************************************************************)
(* Runs of executeTurboPipeline as a state machine.  A run is suspended    *)
(* at its two awaits (lines 463 and 476); other runs step in between.      *)
(***************************************************************************)
Runs == {"r1", "r2"}

IdleRun == [pc |-> "idle"]

InitPipeline ==
    /\ keywordCache = <<>>
    /\ now = 0
    /\ ext = NoCall
    /\ dist = NoDist
    /\ UniqueCVEngine \in BOOLEAN
    /\ runs = [r \in Runs |-> IdleRun]
    /\ extraction = NoExtraction
    /\ NoContentScript

\* the run suspended at line 463
Extracted(jobInfo, baseCV, maxKeywords, rand, e) ==
    [pc |-> "awaitExtract", jobInfo |-> jobInfo, baseCV |-> baseCV,
     maxKeywords |-> maxKeywords, rand |-> rand,
     keywordsResult |-> e.ret, computed |-> e.computed,
     calls |-> <<"turboExtractKeywords">>]

\* executeTurboPipeline(jobInfo, candidateData, baseCV, { maxKeywords }) is called and
\* runs to its first await
StartRun(r, jobInfo, baseCV, maxKeywords, rand) ==
    /\ runs[r].pc = "idle"
    /\ keywordCache' = PipelineExtract(keywordCache, now, jobInfo, maxKeywords).cache
    /\ runs' = [runs EXCEPT ![r] =
                   Extracted(jobInfo, baseCV, maxKeywords, rand,
                             PipelineExtract(keywordCache, now, jobInfo, maxKeywords))]
    /\ UNCHANGED <<now, ext, dist, UniqueCVEngine, extraction, contentVars>>

\* the run after its return
RunReturned(run, calls, result) ==
    [pc |-> "done", jobInfo |-> run.jobInfo, baseCV |-> run.baseCV,
     maxKeywords |-> run.maxKeywords, rand |-> run.rand,
     keywordsResult |-> run.keywordsResult, computed |-> run.computed,
     calls |-> run.calls \o calls, result |-> result]

\* the run resumes after line 463 with no keyword and returns (lines 469-472)
StopWithoutKeywords(r) ==
    /\ runs[r].pc = "awaitExtract"
    /\ NoKeywordsExtracted(runs[r].keywordsResult)
    /\ runs' = [runs EXCEPT ![r] = RunReturned(@, <<>>, FailureResult)]
    /\ UNCHANGED <<cacheVars, dist, UniqueCVEngine, extraction, contentVars>>

\* the run suspended at line 476
Tailored(run, t) ==
    [pc |-> "awaitTailor", jobInfo |-> run.jobInfo, baseCV |-> run.baseCV,
     maxKeywords |-> run.maxKeywords, rand |-> run.rand,
     keywordsResult |-> run.keywordsResult, computed |-> run.computed,
     calls |-> run.calls \o <<"turboTailorCV">> \o t.calls,
     tailorResult |-> t.ret, draws |-> t.draws]

\* the run resumes after line 463 with keywords and runs to its second await:
\* turboTailorCV has no await of its own
Tailor(r) ==
    /\ runs[r].pc = "awaitExtract"
    /\ ~NoKeywordsExtracted(runs[r].keywordsResult)
    /\ \E engine \in Engines(UniqueCVEngine, runs[r].baseCV) :
          runs' = [runs EXCEPT ![r] =
                      Tailored(@, Tailoring(@.baseCV, KeywordsOf(@.keywordsResult),
                                            engine, @.rand))]
    /\ UNCHANGED <<cacheVars, dist, UniqueCVEngine, extraction, contentVars>>

\* the run after lines 479-520
Finished(run, f) == RunReturned(run, f.calls, f.result)

\* the run resumes after line 476 and returns (lines 479-520)
Finish(r, totalTime) ==
    /\ runs[r].pc = "awaitTailor"
    /\ runs' = [runs EXCEPT ![r] =
                   Finished(@, PipelineFinish(@.keywordsResult, @.tailorResult,
                                              Rest(@.rand, @.draws), totalTime))]
    /\ UNCHANGED <<cacheVars, dist, UniqueCVEngine, extraction, contentVars>>

NextPipeline ==
    \/ \E r \in Runs, jobInfo \in PipelineJobs, baseCV \in BaseCVs, rand \in PipelineStreams :
          StartRun(r, jobInfo, baseCV, 0, rand)
    \/ \E r \in Runs : StopWithoutKeywords(r)
    \/ \E r \in Runs : Tailor(r)
    \/ \E r \in Runs, totalTime \in ElapsedTimes : Finish(r, totalTime)

SpecPipeline == InitPipeline /\ [][NextPipeline]_vars

(***************************************************************************)
(* Properties of the pipeline                                              *)
(***************************************************************************)
Started(r) == runs[r].pc # "idle"

Done(r) == runs[r].pc = "done"

TailoringAndDistribution ==
    {"turboTailorCV", "generateUniqueCVForJob", "fastTailorWorkExperience",
     "distributeHighPriorityKeywords"}

\* C8: when extraction yields no keyword, the run returns success = false with a
\* reason, and calls neither turboTailorCV, nor the external generator, nor
\* distributeHighPriorityKeywords.
C8_NoKeywordsStopsTheRun ==
    \A r \in DOMAIN runs :
        (Started(r) /\ runs[r].keywordsResult.all = <<>>)
            => /\ runs[r].pc \in {"awaitExtract", "done"}
               /\ SeqToSet(runs[r].calls) \cap TailoringAndDistribution = {}
               /\ Done(r) => /\ runs[r].result.success = FALSE
                             /\ "error" \in DOMAIN runs[r].result
                             /\ runs[r].result.error # ""

\* a run on a text of 56 characters in which extraction finds nothing has returned
C8_Witness ==
    \E r \in DOMAIN runs :
        /\ Done(r)
        /\ runs[r].jobInfo.description = Str(JD_STOPWORDS)
        /\ runs[r].computed
        /\ runs[r].keywordsResult.all = <<>>
        /\ runs[r].result.success = FALSE

\* C9: every run that has returned, whatever its outcome, returns a result with a
\* document tailoredCV, and the document is the base one when nothing was injected.
C9_AlwaysReturnsADocument ==
    \A r \in DOMAIN runs :
        Done(r) =>
            /\ "tailoredCV" \in DOMAIN runs[r].result
            /\ runs[r].result.tailoredCV.defined
            /\ (/\ SeqToSet(runs[r].calls) \cap {"generateUniqueCVForJob"} = {}
                /\ runs[r].result.injectedKeywords = <<>>
                /\ "added" \in DOMAIN runs[r].result.distributionStats
                      => runs[r].result.distributionStats.added = 0)
                  => runs[r].result.tailoredCV = runs[r].baseCV

\* the run has left turboTailorCV and waits at line 476
AfterTailoring(r) == runs[r].pc = "awaitTailor"

\* the functions the tailoring stage of the run called, in order
StageCalls(r) == SubSeq(runs[r].calls, 3, Len(runs[r].calls))

\* what the stage returns when it hands on what the external generator returned
UniqueReturns(cvText) ==
    {[tailoredCV |-> u.uniqueCV, stats |-> u.stats, uniqueHash |-> u.fileHash] :
        u \in UniqueResults(cvText)}

ReturnedByStage(r) ==
    [tailoredCV |-> runs[r].tailorResult.tailoredCV,
     stats      |-> runs[r].tailorResult.stats,
     uniqueHash |-> runs[r].tailorResult.uniqueHash]

\* the work-experience keywords of the run that its base text does not contain
AbsentFromBase(r) ==
    SelectSeq(runs[r].keywordsResult.workExperience,
              LAMBDA kw : ~Includes(ToLowerCase(runs[r].baseCV.text), ToLowerCase(kw)))

\* C18 as stated: with the external generator there, the stage returns its text, stats
\* and hash and calls neither fastTailorWorkExperience nor
\* distributeHighPriorityKeywords; without it, the stage calls
\* fastTailorWorkExperience and then distributeHighPriorityKeywords.
C18_EngineOrFallbackAsStated ==
    \A r \in DOMAIN runs :
        AfterTailoring(r) =>
            IF UniqueCVEngine
            THEN /\ StageCalls(r) = <<"generateUniqueCVForJob">>
                 /\ ReturnedByStage(r) \in UniqueReturns(runs[r].baseCV)
            ELSE StageCalls(r) = <<"fastTailorWorkExperience", "distributeHighPriorityKeywords">>

\* C18, amended: on a text that is not empty, with the external generator there, the
\* stage returns its text, stats and hash and calls neither fastTailorWorkExperience
\* nor distributeHighPriorityKeywords; without it, the stage calls
\* fastTailorWorkExperience if the text lacks one of the work-experience keywords, and
\* then distributeHighPriorityKeywords.  On an empty text the stage calls nothing and
\* returns the text.
C18_EngineOrFallback ==
    \A r \in DOMAIN runs :
        AfterTailoring(r) =>
            IF runs[r].baseCV.text = ""
            THEN /\ StageCalls(r) = <<>>
                 /\ runs[r].tailorResult.tailoredCV = runs[r].baseCV
            ELSE IF UniqueCVEngine
            THEN /\ StageCalls(r) = <<"generateUniqueCVForJob">>
                 /\ ReturnedByStage(r) \in UniqueReturns(runs[r].baseCV)
            ELSE /\ StageCalls(r) =
                        (IF AbsentFromBase(r) # <<>> THEN <<"fastTailorWorkExperience">>
                         ELSE <<>>) \o <<"distributeHighPriorityKeywords">>
                 /\ runs[r].tailorResult.uniqueHash = ""

\* one run took the text of the external generator, rewritten
C18_Witness ==
    \E r \in DOMAIN runs :
        /\ AfterTailoring(r)
        /\ UniqueCVEngine
        /\ StageCalls(r) = <<"generateUniqueCVForJob">>
        /\ runs[r].tailorResult.uniqueHash = "hash-1"
        /\ runs[r].tailorResult.tailoredCV # runs[r].baseCV

\* the runs with the scheduling of the event loop: a run suspended at an await whose
\* promise is settled is resumed
SpecPipelineFair ==
    /\ SpecPipeline
    /\ \A r \in Runs : /\ WF_vars(StopWithoutKeywords(r))
                        /\ WF_vars(Tailor(r))
                        /\ WF_vars(\E totalTime \in ElapsedTimes : Finish(r, totalTime))

\* the run holds keywords: extraction returned one keyword or more
HoldsKeywords(r) == Started(r) /\ runs[r].keywordsResult.all # <<>>

\* the functions turboTailorCV may call
CalledByTailoring ==
    {"generateUniqueCVForJob", "fastTailorWorkExperience", "distributeHighPriorityKeywords"}

\* one step of a run: from the call to line 463 with the extraction made, from there
\* with keywords to line 476 with the tailoring made, from there to the return with
\* the distribution of line 487 made and the aggregated result
C19_StagesInOrder(r) ==
    /\ (runs[r].pc = "idle" /\ runs'[r] # runs[r])
          => /\ runs'[r].pc = "awaitExtract"
             /\ runs'[r].calls = <<"turboExtractKeywords">>
    /\ (runs[r].pc = "awaitExtract" /\ HoldsKeywords(r) /\ runs'[r] # runs[r])
          => /\ runs'[r].pc = "awaitTailor"
             /\ Len(runs'[r].calls) >= 2
             /\ SubSeq(runs'[r].calls, 1, 2) = <<"turboExtractKeywords", "turboTailorCV">>
             /\ \A i \in 3..Len(runs'[r].calls) : runs'[r].calls[i] \in CalledByTailoring
    /\ (runs[r].pc = "awaitTailor" /\ runs'[r] # runs[r])
          => /\ runs'[r].pc = "done"
             /\ runs'[r].calls = runs[r].calls \o <<"distributeHighPriorityKeywords">>
             /\ runs'[r].result.success = TRUE
             /\ runs'[r].result.timings.total \in ElapsedTimes
             /\ runs'[r].result.meetsTarget = (runs'[r].result.timings.total <= 175)
    /\ runs[r].pc = "done" => runs'[r] = runs[r]

\* C19: a run whose extraction yields a keyword makes extraction, then tailoring, then
\* distribution, each stage once and in that order, and always reaches the aggregated
\* result with success = true, whatever the time taken; meetsTarget is (total <= 175)
\* and the run is never stopped early.
C19_ThreeStagesThenSuccess ==
    /\ [][\A r \in Runs : C19_StagesInOrder(r)]_vars
    /\ \A r \in Runs :
          (runs[r].pc = "awaitExtract" /\ HoldsKeywords(r))
              ~> (Done(r) /\ runs[r].result.success = TRUE)

\* a run has returned success after 176 ms, over the target
C19_Witness ==
    \E r \in DOMAIN runs :
        /\ Done(r)
        /\ HoldsKeywords(r)
        /\ runs[r].result.success = TRUE
        /\ runs[r].result.timings.total = TIMING_TARGET_TOTAL + 1
        /\ runs[r].result.meetsTarget = FALSE
        /\ runs[r].calls[Len(runs[r].calls)] = "distributeHighPriorityKeywords"

\* the run was started on a job with a URL and a text of 50 characters or more
OnJobUrl(r) ==
    /\ Started(r)
    /\ runs[r].jobInfo.defined
    /\ OrEmpty(runs[r].jobInfo.url) # ""
    /\ Len(OrEmpty(runs[r].jobInfo.description)) >= 50

\* the key of the job of a run
KeyOfRun(run) == getCacheKey(OrEmpty(run.jobInfo.url), OrEmpty(run.jobInfo.description))

\* a step in which run r leaves its call of turboExtractKeywords: no other run moves;
\* when the run computed, the Map had no entry under the key before the step and holds
\* the computed set under it after the step; when it did not, the Map is as it was
LookupThenStore(r) ==
    /\ \A q \in Runs \ {r} : runs'[q] = runs[q]
    /\ IF runs'[r].computed
       THEN /\ CacheIndex(keywordCache, KeyOfRun(runs'[r])) = 0
            /\ CacheIndex(keywordCache', KeyOfRun(runs'[r])) # 0
            /\ keywordCache'[CacheIndex(keywordCache', KeyOfRun(runs'[r]))].keywords
                   = KeywordsOf(runs'[r].keywordsResult)
       ELSE keywordCache' = keywordCache

C24_Step ==
    /\ \A r \in Runs : (runs[r].pc = "idle" /\ runs'[r].pc # "idle") => LookupThenStore(r)
    /\ (\A r \in Runs : runs[r].pc = "idle" <=> runs'[r].pc = "idle")
          => keywordCache' = keywordCache

\* of two runs on the same URL, one computed and the other was served its set
OneComputes ==
    \A r \in Runs, q \in Runs :
        (r # q /\ OnJobUrl(r) /\ OnJobUrl(q) /\ runs[r].jobInfo.url = runs[q].jobInfo.url)
            => /\ runs[r].computed # runs[q].computed
               /\ ~runs[q].computed
                     => /\ runs[q].keywordsResult.fromCache = "true"
                        /\ KeywordsOf(runs[q].keywordsResult) = KeywordsOf(runs[r].keywordsResult)

\* C24: with several runs of executeTurboPipeline in flight, the cache lookup of a run
\* and the store that follows a miss happen with no step of another run in between;
\* so of two runs on the same uncached job URL (text of 50 characters or more) exactly
\* one computes the keyword set and the other is served from the cache.
C24_LookupAndStoreAtomic == [][C24_Step]_vars /\ []OneComputes

\* two runs on the same URL are both suspended at their first await: one computed,
\* one was served
C24_Witness ==
    \E r \in Runs, q \in Runs :
        /\ r # q
        /\ OnJobUrl(r) /\ OnJobUrl(q)
        /\ runs[r].jobInfo.url = runs[q].jobInfo.url
        /\ runs[r].pc = "awaitExtract" /\ runs[q].pc = "awaitExtract"
        /\ runs[r].computed /\ ~runs[q].computed
        /\ runs[q].keywordsResult.fromCache = "true"

\* the run went through the fallback of turboTailorCV (lines 342-384)
ThroughFallback(r) ==
    /\ runs[r].pc \in {"awaitTailor", "done"}
    /\ "tailorResult" \in DOMAIN runs[r]
    /\ runs[r].baseCV.text # ""
    /\ \A i \in 1..Len(runs[r].calls) : runs[r].calls[i] # "generateUniqueCVForJob"

\* the keywords of injected were not in the text base, are in the text tailored, and
\* are listed once each
InjectedByTheRun(base, tailored, injected) ==
    /\ \A i \in 1..Len(injected) :
          /\ ~WholeWordTest(ToLowerCase(base), injected[i])
          /\ Includes(ToLowerCase(tailored), ToLowerCase(injected[i]))
    /\ \A i \in 1..Len(injected), j \in 1..Len(injected) :
          i # j => injected[i] # injected[j]

\* C28: in the fallback path of turboTailorCV, every keyword of the returned
\* injectedKeywords was absent from the base text and was inserted by the run, and no
\* keyword is listed more than once.
C28_InjectedKeywordsAreInjected ==
    \A r \in DOMAIN runs :
        ThroughFallback(r) =>
            InjectedByTheRun(runs[r].baseCV.text, runs[r].tailorResult.tailoredCV.text,
                             runs[r].tailorResult.injectedKeywords)

(***************************************************************************)
(* ultraFastExtraction as a state machine: a call is drawn, then made      *)
(***************************************************************************)
\* technical terms, each of them a token of its own
TermList ==
    <<"ai", "ml", "go", "s3", "aws", "gcp", "dbt", "sql", "api", "ecs", "eks", "rds",
      "nlp", "llm", "etl", "git", "svn", "css", "vue", "ios", "sre", "jwt", "pci", "pmp",
      "java", "ruby", "node", "rest", "jira", "bash", "unix", "html", "sass", "vite",
      "gdpr", "cbap", "rails", "react", "azure", "mysql", "redis", "spark">>

\* the most terms of a text of terms
MaxTerms == 36

\* the text of the first n terms
TermText(n) == Join(SubSeq(TermList, 1, Min(n, Len(TermList))), " ")

\* terms that come back, in several cases
JD_REPEATS == "Python, python and PYTHON engineer; Engineer with aws AWS kafka"

\* phrases that the text holds in another order than multiWordPatterns
JD_PHRASES == "We use machine learning and data science for our cloud platform products"

ExtractionTexts == {TermText(n) : n \in 0..MaxTerms} \cup {JD_REPEATS, JD_PHRASES}

ExtractionMaxKeywords == {3, DEFAULT_MAX_KEYWORDS, DEFAULT_MAX_KEYWORDS + 5}

InitExtraction ==
    /\ keywordCache = <<>>
    /\ now = 0
    /\ ext = NoCall
    /\ dist = NoDist
    /\ UniqueCVEngine = FALSE
    /\ runs = NoRuns
    /\ extraction \in {[phase |-> "drawn", text |-> t, maxKeywords |-> m] :
                          t \in ExtractionTexts, m \in ExtractionMaxKeywords}
    /\ NoContentScript

\* the drawn call of ultraFastExtraction is made; words and counted are its locals
\* after lines 122 and 132, freq is the Map after line 149
UltraFastExtract ==
    /\ extraction.phase = "drawn"
    /\ extraction' =
           [phase       |-> "done",
            text        |-> extraction.text,
            maxKeywords |-> extraction.maxKeywords,
            words       |-> Tokenize(extraction.text),
            counted     |-> CountWords(Tokenize(extraction.text), 1, <<>>),
            freq        |-> FreqTable(extraction.text),
            ret         |-> ultraFastExtraction(extraction.text, extraction.maxKeywords)]
    /\ UNCHANGED <<cacheVars, dist, UniqueCVEngine, runs, contentVars>>

NextExtraction == UltraFastExtract

SpecExtraction == InitExtraction /\ [][NextExtraction]_vars

(***************************************************************************)
(* Properties of the extraction                                            *)
(***************************************************************************)
ExtractionDone == extraction.phase = "done"

\* C13: for every keyword set the extraction returns, highPriority followed by
\* mediumPriority followed by lowPriority is all, element for element and in order.
C13_TiersPartitionAll ==
    ExtractionDone =>
        extraction.ret.highPriority \o extraction.ret.mediumPriority
            \o extraction.ret.lowPriority = extraction.ret.all

\* a set of 36 keywords with all three tiers filled has been returned
C13_Witness ==
    /\ ExtractionDone
    /\ Len(extraction.ret.all) = 36
    /\ extraction.ret.highPriority # <<>>
    /\ extraction.ret.mediumPriority # <<>>
    /\ extraction.ret.lowPriority # <<>>

\* the least whole number that is at least pct hundredths of n
CeilOfPercent(n, pct) == CHOOSE c \in 0..n : 100 * c >= pct * n /\ 100 * (c - 1) < pct * n

\* the counts of lines 158-159 for a list of n keywords
HighCount(n) == IF CeilOfPercent(n, 45) < 15 THEN CeilOfPercent(n, 45) ELSE 15

MedCount(n) == IF CeilOfPercent(n, 35) < 10 THEN CeilOfPercent(n, 35) ELSE 10

\* C14 as stated: for a truncated list of N keywords, highPriority has
\* min(15, ceil(0.45 N)) entries, mediumPriority has min(10, ceil(0.35 N)) entries and
\* lowPriority has N less those two counts.
C14_TierSizesAsStated ==
    ExtractionDone =>
        LET N == Len(extraction.ret.all)
        IN  /\ Len(extraction.ret.highPriority) = HighCount(N)
            /\ Len(extraction.ret.mediumPriority) = MedCount(N)
            /\ Len(extraction.ret.lowPriority) = N - HighCount(N) - MedCount(N)

\* C14, amended: for a truncated list of N keywords (0 <= N <= maxKeywords),
\* highPriority has min(15, ceil(0.45 N)) entries, mediumPriority has
\* min(10, ceil(0.35 N)) entries or the N - highCount entries that are left when they
\* are fewer, and lowPriority has the rest.
C14_TierSizes ==
    ExtractionDone =>
        LET N    == Len(extraction.ret.all)
            left == N - HighCount(N)
            med  == IF MedCount(N) < left THEN MedCount(N) ELSE left
        IN  /\ N <= extraction.maxKeywords
            /\ extraction.ret.total = N
            /\ Len(extraction.ret.highPriority) = HighCount(N)
            /\ Len(extraction.ret.mediumPriority) = med
            /\ Len(extraction.ret.lowPriority) = N - HighCount(N) - med

\* both caps have acted: 35 keywords in tiers of 15, 10 and 10
C14_Witness ==
    /\ ExtractionDone
    /\ Len(extraction.ret.all) = DEFAULT_MAX_KEYWORDS
    /\ Len(extraction.ret.highPriority) = 15
    /\ Len(extraction.ret.mediumPriority) = 10
    /\ Len(extraction.ret.lowPriority) = 10

\* how many times w is among the words
Occurrences(words, w) == Cardinality({i \in 1..Len(words) : words[i] = w})

\* C15: after the k-th occurrence of a qualifying token in the job text, the score the
\* frequency table holds for the token is k times its boost: 5 for a token of the
\* technical-term set, 1 for any other token of more than 4 characters.
C15_ScoreIsCountTimesBoost ==
    ExtractionDone =>
        \A i \in 1..Len(extraction.counted) :
            LET word == extraction.counted[i].word
            IN  extraction.counted[i].score =
                    Occurrences(extraction.words, word)
                        * (IF word \in technicalPatterns THEN 5 ELSE 1)

\* where the text lower, in lower case, first holds the term
FirstSeen(lower, term) ==
    MinOf({p \in 1..(Len(lower) - Len(term) + 1) : SubSeq(lower, p, p + Len(term) - 1) = term})

\* the entries of the frequency table that line 153 keeps, each with the place where
\* the text first shows its term
SeenEntries(kept, lower) ==
    [k \in 1..Len(kept) |->
        [word |-> kept[k].word, score |-> kept[k].score,
         seen |-> FirstSeen(lower, kept[k].word)]]

\* a comes before b in the ranking: a higher score, or the same score and seen first
RankedBefore(a, b) == a.score > b.score \/ (a.score = b.score /\ a.seen < b.seen)

\* the place of the k-th entry in the ranking of all the entries
RankOf(entries, k) ==
    Cardinality({m \in 1..Len(entries) : RankedBefore(entries[m], entries[k])}) + 1

\* all is the first maxKeywords terms of the ranking of the entries
IsRanking(all, entries, maxKeywords) ==
    /\ Len(all) = Min(maxKeywords, Len(entries))
    /\ \A i, j \in 1..Len(all) : i < j => all[i] # all[j]
    /\ \A k \in 1..Len(entries) :
           RankOf(entries, k) <= Len(all) => all[RankOf(entries, k)] = entries[k].word

\* C16: the list all holds no term twice, is ordered by non-increasing score with the
\* terms of equal score in the order in which the text first shows them, and is the
\* first maxKeywords terms of that ranking of all the terms.
C16_RankedByScoreThenFirstSeen ==
    ExtractionDone =>
        IsRanking(extraction.ret.all,
                  SeenEntries(SelectSeq(extraction.freq,
                                        LAMBDA e : e.word \notin softSkillsToExclude),
                              ToLowerCase(extraction.text)),
                  extraction.maxKeywords)

(***************************************************************************)
(* The cache keys: calls of turboExtractKeywords on long texts             *)
(***************************************************************************)
InitKeys ==
    /\ keywordCache = <<>>
    /\ now = 0
    /\ ext = NoCall
    /\ dist = NoDist
    /\ UniqueCVEngine = FALSE
    /\ runs = NoRuns
    /\ extraction = NoExtraction
    /\ NoContentScript

NextKeys ==
    \/ \E t \in KeyTexts, url \in JobUrls : Extract(Str(t), url, DEFAULT_MAX_KEYWORDS)
    \/ ClearCache
    \/ \E t \in Instants : Tick(t)

SpecKeys == InitKeys /\ [][NextKeys]_vars

\* the set the last call returned is in an entry of the cache that has not expired
LastSetIsLive ==
    \E i \in 1..Len(keywordCache) :
        /\ keywordCache[i].keywords = KeywordsOf(ext.ret)
        /\ now - keywordCache[i].timestamp < CACHE_EXPIRY_MS

\* the call of this step is served the set of the call before it
ServedLastSet ==
    ext'.ret.fromCache = "true" /\ KeywordsOf(ext'.ret) = KeywordsOf(ext.ret)

SamePrefixAndLength(a, b) == Substring(a, 0, 200) = Substring(b, 0, 200) /\ Len(a) = Len(b)

\* C17: a call with a URL reads and writes the entry whose key is the URL itself,
\* whatever its text; of two calls without a URL, the second is served the set cached
\* for the first if and only if the two texts have the same first 200 characters and the
\* same length.
C17_Step ==
    (IsCall /\ ~Insufficient(ext'.jobDescription)) =>
        /\ ext'.jobUrl # "" =>
               IF HasLiveEntry(keywordCache, now, ext'.jobUrl)
               THEN /\ ext'.ret =
                           WithFromCache(EntryOf(keywordCache, ext'.jobUrl).keywords, "true")
                    /\ keywordCache' = keywordCache
               ELSE /\ ext'.computed
                    /\ \E i \in 1..Len(keywordCache') :
                           keywordCache'[i] = [key       |-> ext'.jobUrl,
                                               keywords  |-> KeywordsOf(ext'.ret),
                                               timestamp |-> now]
        /\ (/\ ext'.jobUrl = ""
            /\ ext.n > 0
            /\ ext.jobUrl = ""
            /\ ext.computed
            /\ LastSetIsLive)
               => (ServedLastSet <=> SamePrefixAndLength(ext.jobDescription.text,
                                                         ext'.jobDescription.text))

C17_KeyIsUrlOrPrefixAndLength == [][C17_Step]_vars

\* a call without a URL was served the set of another text with the same first 200
\* characters and the same length
C17_Witness ==
    /\ ext.n = 2
    /\ ext.jobUrl = ""
    /\ ext.jobDescription = Str(JD_LONG_B)
    /\ ext.ret.fromCache = "true"
    /\ KeywordsOf(ext.ret) = Extraction(JD_LONG_A, DEFAULT_MAX_KEYWORDS)
    /\ Extraction(JD_LONG_A, DEFAULT_MAX_KEYWORDS) # Extraction(JD_LONG_B, DEFAULT_MAX_KEYWORDS)


(***************************************************************************)
(* content.js: initAutoTailor (lines 1059-1096) and autoTailorDocuments    *)
(* (lines 665-840) on one page.  Every callback and every stretch of       *)
(* autoTailorDocuments between two awaits is one action: the script runs   *)
(* on one thread, and what is suspended on an await resumes in a later     *)
(* task.  page.invocations holds the position of each invocation of        *)
(* autoTailorDocuments, in the order they were made.                       *)
(***************************************************************************)

\* where an invocation of autoTailorDocuments can be
InvocationPositions ==
    {"skipped", "awaitCache", "cachedFiles", "awaitSession", "noSession", "awaitProfile",
     "noJob", "awaitTailor", "failed", "done"}

\* the call autoTailorDocuments() up to its first await: the guard of line 666
autoTailorDocuments(pg, triggered, inProgress) ==
    [pg EXCEPT !.invocations =
        Append(@, IF triggered \/ inProgress THEN "skipped" ELSE "awaitCache")]

\* the test of lines 1078 and 1089
FieldsAndNotTriggered(pg, triggered) == ~triggered /\ pg.hasUploadFields

InitPage ==
    /\ keywordCache = <<>>
    /\ now = 0
    /\ ext = NoCall
    /\ dist = NoDist
    /\ UniqueCVEngine = FALSE
    /\ runs = NoRuns
    /\ extraction = NoExtraction
    /\ hasTriggeredTailor = FALSE
    /\ tailoringInProgress = FALSE
    /\ request = NoRequest
    /\ \E fields \in BOOLEAN, tailored \in BOOLEAN :
          page = [NoPage EXCEPT !.hasUploadFields = fields, !.alreadyTailored = tailored]

\* the callback of the 8 ms timer, lines 1065-1095
Trigger ==
    /\ ~page.started
    /\ page' = IF page.hasUploadFields
                  THEN autoTailorDocuments([page EXCEPT !.started = TRUE],
                                           hasTriggeredTailor, tailoringInProgress)
                  ELSE [page EXCEPT !.started = TRUE, !.observer = "observing",
                                    !.timer = "pending"]
    /\ UNCHANGED <<pipelineVars, hasTriggeredTailor, tailoringInProgress, request>>

\* the page changes its DOM; an observing MutationObserver gets a record
Mutation(fields) ==
    /\ page.started
    /\ page' = [page EXCEPT !.hasUploadFields = fields,
                            !.records = (page.observer = "observing")]
    /\ UNCHANGED <<pipelineVars, hasTriggeredTailor, tailoringInProgress, request>>

\* the callback of the MutationObserver, lines 1077-1083
ObserverCallback ==
    /\ page.observer = "observing"
    /\ page.records
    /\ page' = IF FieldsAndNotTriggered(page, hasTriggeredTailor)
                  THEN autoTailorDocuments([page EXCEPT !.records = FALSE,
                                                        !.observer = "disconnected"],
                                           hasTriggeredTailor, tailoringInProgress)
                  ELSE [page EXCEPT !.records = FALSE]
    /\ UNCHANGED <<pipelineVars, hasTriggeredTailor, tailoringInProgress, request>>

\* the callback of the 30 ms timer, lines 1088-1093
FallbackCheck ==
    /\ page.timer = "pending"
    /\ page' = IF FieldsAndNotTriggered(page, hasTriggeredTailor)
                  THEN autoTailorDocuments([page EXCEPT !.timer = "fired", !.records = FALSE,
                                                        !.observer = "disconnected"],
                                           hasTriggeredTailor, tailoringInProgress)
                  ELSE [page EXCEPT !.timer = "fired"]
    /\ UNCHANGED <<pipelineVars, hasTriggeredTailor, tailoringInProgress, request>>

\* the storage read of lines 672-676 answers invocation i: lines 678-688
CacheRead(i) ==
    /\ i \in 1..Len(page.invocations)
    /\ page.invocations[i] = "awaitCache"
    /\ IF page.alreadyTailored
          THEN /\ page' = [page EXCEPT !.invocations[i] = "cachedFiles"]
               /\ UNCHANGED <<hasTriggeredTailor, tailoringInProgress>>
          ELSE /\ page' = [page EXCEPT !.invocations[i] = "awaitSession"]
               /\ hasTriggeredTailor' = TRUE
               /\ tailoringInProgress' = TRUE
    /\ UNCHANGED <<pipelineVars, request>>

\* the storage read of lines 692-694 answers invocation i: lines 696-713
SessionRead(i, loggedIn) ==
    /\ i \in 1..Len(page.invocations)
    /\ page.invocations[i] = "awaitSession"
    /\ IF loggedIn
          THEN /\ page' = [page EXCEPT !.invocations[i] = "awaitProfile"]
               /\ UNCHANGED tailoringInProgress
          ELSE /\ page' = [page EXCEPT !.invocations[i] = "noSession"]
               /\ tailoringInProgress' = FALSE
    /\ UNCHANGED <<pipelineVars, hasTriggeredTailor, request>>

\* how a call of fetchWithRetry can end for its caller
FetchOutcomes == {"ok", "notOk", "thrown"}

\* the profile request of invocation i is settled: lines 715-734, and 813-839 on an error
ProfileLoaded(i, outcome, hasTitle) ==
    /\ i \in 1..Len(page.invocations)
    /\ page.invocations[i] = "awaitProfile"
    /\ IF outcome # "ok"
          THEN /\ page' = [page EXCEPT !.invocations[i] = "failed"]
               /\ tailoringInProgress' = FALSE
          ELSE IF ~hasTitle
          THEN /\ page' = [page EXCEPT !.invocations[i] = "noJob"]
               /\ tailoringInProgress' = FALSE
          ELSE /\ page' = [page EXCEPT !.invocations[i] = "awaitTailor",
                                       !.tailorRequests = @ + 1]
               /\ UNCHANGED tailoringInProgress
    /\ UNCHANGED <<pipelineVars, hasTriggeredTailor, request>>

\* the tailor request of invocation i is settled: lines 764-839
TailorAnswered(i, outcome) ==
    /\ i \in 1..Len(page.invocations)
    /\ page.invocations[i] = "awaitTailor"
    /\ page' = IF outcome = "ok"
                  THEN [page EXCEPT !.invocations[i] = "done", !.alreadyTailored = TRUE]
                  ELSE [page EXCEPT !.invocations[i] = "failed"]
    /\ tailoringInProgress' = FALSE
    /\ UNCHANGED <<pipelineVars, hasTriggeredTailor, request>>

NextPage ==
    \/ Trigger
    \/ \E fields \in BOOLEAN : Mutation(fields)
    \/ ObserverCallback
    \/ FallbackCheck
    \/ \E i \in 1..Len(page.invocations) : CacheRead(i)
    \/ \E i \in 1..Len(page.invocations), loggedIn \in BOOLEAN : SessionRead(i, loggedIn)
    \/ \E i \in 1..Len(page.invocations), outcome \in FetchOutcomes, hasTitle \in BOOLEAN :
          ProfileLoaded(i, outcome, hasTitle)
    \/ \E i \in 1..Len(page.invocations), outcome \in FetchOutcomes : TailorAnswered(i, outcome)

SpecPage == InitPage /\ [][NextPage]_vars

\* the invocations that passed the guard of line 666
PassedTheGuard == {i \in 1..Len(page.invocations) : page.invocations[i] # "skipped"}

\* C29: on one page at most one invocation of autoTailorDocuments passes the guard of
\* line 666 and sends the tailor request, also when it is invoked again while an earlier
\* invocation is still waiting for its storage read
C29_OneInvocationTailors ==
    /\ Cardinality(PassedTheGuard) <= 1
    /\ page.tailorRequests <= 1

(***************************************************************************)
(* content.js: fetchWithRetry (lines 25-75) with RETRY_CONFIG (lines       *)
(* 15-20).  request.log holds what each request of the call ended with,    *)
(* and the retries the invocation that made it had.  A recursive call is   *)
(* returned without await, so what it ends with is what the outer call     *)
(* ends with.                                                              *)
(***************************************************************************)

maxRetries == 4

baseDelayMs == 1500

maxDelayMs == 12000

retryableStatuses == {408, 429, 500, 502, 503, 504, 520, 521, 522, 523, 524}

\* the statuses the server answers with
Statuses == {200, 404, 408, 502, 524}

\* a response with a status
HttpResponse(status) == [kind |-> "response", status |-> status, name |-> "", message |-> ""]

\* an error fetch rejects with
FetchFailure(name, message) ==
    [kind |-> "error", status |-> 0, name |-> name, message |-> message]

\* the errors of the model: a network failure, the abort of line 32, and two
\* errors of other names
Errors ==
    {FetchFailure("TypeError", "Failed to fetch"),
     FetchFailure("AbortError", "The user aborted a request."),
     FetchFailure("Error", "network changed"),
     FetchFailure("Error", "Extension context invalidated.")}

\* the test of line 41
RetryStatus_IgnoreRetries(status, retries) == status \in retryableStatuses

\* the test of line 41
RetryStatus(status, retries) == status \in retryableStatuses /\ retries > 0

\* isRetryable, lines 55-61
isRetryable(error, retries) ==
    /\ retries > 0
    /\ \/ error.name = "TypeError"
       \/ error.name = "AbortError"
       \/ Includes(error.message, "fetch")
       \/ Includes(error.message, "network")
       \/ Includes(error.message, "Failed to fetch")

\* delay, lines 42-45 and 64-67
RetryDelay(retries) == Min(baseDelayMs * 2 ^ (maxRetries - retries), maxDelayMs)

InitFetch ==
    /\ keywordCache = <<>>
    /\ now = 0
    /\ ext = NoCall
    /\ dist = NoDist
    /\ UniqueCVEngine = FALSE
    /\ runs = NoRuns
    /\ extraction = NoExtraction
    /\ hasTriggeredTailor = FALSE
    /\ tailoringInProgress = FALSE
    /\ page = NoPage
    /\ request = NoRequest

\* fetchWithRetry(url, options): retries takes its default, the first request goes out
CallFetchWithRetry ==
    /\ request.pc = "idle"
    /\ request' = [pc |-> "fetching", retries |-> maxRetries, requests |-> 1, delay |-> 0,
                   log |-> <<>>]
    /\ UNCHANGED <<pipelineVars, hasTriggeredTailor, tailoringInProgress, page>>

\* the fetch of line 34 resolves: lines 39-52
Response(status) ==
    /\ request.pc = "fetching"
    /\ request' =
          [request EXCEPT
              !.log = Append(@, [outcome |-> HttpResponse(status), retries |-> request.retries]),
              !.pc = IF RetryStatus(status, request.retries) THEN "delay" ELSE "returned",
              !.delay = IF RetryStatus(status, request.retries)
                           THEN RetryDelay(request.retries) ELSE 0]
    /\ UNCHANGED <<pipelineVars, hasTriggeredTailor, tailoringInProgress, page>>

\* the fetch of line 34 rejects, on its own or by the abort of line 32: lines 53-74
FetchError(error) ==
    /\ request.pc = "fetching"
    /\ request' =
          [request EXCEPT
              !.log = Append(@, [outcome |-> error, retries |-> request.retries]),
              !.pc = IF isRetryable(error, request.retries) THEN "delay" ELSE "thrown",
              !.delay = IF isRetryable(error, request.retries)
                           THEN RetryDelay(request.retries) ELSE 0]
    /\ UNCHANGED <<pipelineVars, hasTriggeredTailor, tailoringInProgress, page>>

\* the timer of line 48 or 70 fires: the recursive call of line 49 or 71 sends the next request
DelayElapsed ==
    /\ request.pc = "delay"
    /\ request' = [request EXCEPT !.pc = "fetching", !.retries = @ - 1, !.requests = @ + 1,
                                  !.delay = 0]
    /\ UNCHANGED <<pipelineVars, hasTriggeredTailor, tailoringInProgress, page>>

NextFetch ==
    \/ CallFetchWithRetry
    \/ \E status \in Statuses : Response(status)
    \/ \E error \in Errors : FetchError(error)
    \/ DelayElapsed

SpecFetch == InitFetch /\ [][NextFetch]_vars

\* every fetch settles, by the abort of line 32 at the latest, and every timer fires
SpecFetchFair ==
    /\ SpecFetch
    /\ WF_vars(CallFetchWithRetry)
    /\ WF_vars((\E status \in Statuses : Response(status)) \/ (\E error \in Errors : FetchError(error)))
    /\ WF_vars(DelayElapsed)

\* the call has returned a response or thrown an error
Settled == request.pc \in {"returned", "thrown"}

\* what the call ended with
LastOutcome == request.log[Len(request.log)]

\* a status of the retryable kind: 408, 429 and the 5xx list
OfRetryableStatus(e) ==
    e.outcome.kind = "response" /\
    e.outcome.status \in {408, 429, 500, 502, 503, 504, 520, 521, 522, 523, 524}

\* a network or abort error
NetworkOrAbort(e) ==
    e.outcome.kind = "error" /\
    e.outcome \in {FetchFailure("TypeError", "Failed to fetch"),
                   FetchFailure("AbortError", "The user aborted a request."),
                   FetchFailure("Error", "network changed")}

\* the requests that were followed by a retry
Retried ==
    {i \in 1..Len(request.log) : i < Len(request.log) \/ request.pc \in {"delay", "fetching"}}

RetryRules ==
    /\ request.requests <= maxRetries + 1
    /\ request.requests = Len(request.log) + (IF request.pc = "fetching" THEN 1 ELSE 0)
    /\ \A i \in Retried :
          /\ OfRetryableStatus(request.log[i]) \/ NetworkOrAbort(request.log[i])
          /\ request.log[i].retries > 0
    /\ \A i \in 1..Len(request.log) :
          /\ (request.log[i].outcome.kind = "response" /\ ~OfRetryableStatus(request.log[i]))
                => (i = Len(request.log) /\ request.pc = "returned")
          /\ (OfRetryableStatus(request.log[i]) /\ request.log[i].retries = 0)
                => (i = Len(request.log) /\ request.pc = "returned")
          /\ (NetworkOrAbort(request.log[i]) /\ request.log[i].retries = 0)
                => (i = Len(request.log) /\ request.pc = "thrown")
    /\ request.pc = "returned" => LastOutcome.outcome.kind = "response"
    /\ request.pc = "thrown" => LastOutcome.outcome.kind = "error"

\* C30: one call of fetchWithRetry sends at most maxRetries + 1 = 5 requests and always
\* finishes; it retries only after a retryable status or a network or abort error while
\* retries remain, returns a response whose status is not retryable at once, returns the
\* last response when the retries run out on a retryable status, and rethrows the error
\* when they run out on a network error
C30_RetriesBoundedAndSettles ==
    /\ []RetryRules
    /\ (request.pc # "idle") ~> Settled

\* five requests were answered 502 and the fifth answer was returned; or five requests
\* failed and the fifth error was thrown
C30_Witness ==
    /\ request.requests = 5
    /\ Settled
    /\ LastOutcome.retries = 0
    /\ LastOutcome.outcome \in {HttpResponse(502), FetchFailure("TypeError", "Failed to fetch")}

====
